---- MODULE Spec2Model ----
(***************************************************************************)
(* The photo record store of irmGall (src/lib/photoStorage.ts), the HTTP   *)
(* resource endpoints that call it (app/api/photos/...), the validation    *)
(* schemas in front of it, and, in the browser, the hooks usePolling and   *)
(* usePhotos over the gallery store.                                       *)
(*                                                                         *)
(* JavaScript values are represented as follows.                           *)
(*   - a string is a sequence of one-character strings;                    *)
(*   - `undefined` and `null` in a string-typed slot are the marker        *)
(*     sequences Undefined and Null (no real string contains a             *)
(*     multi-character element);                                           *)
(*   - an object is a function from its own keys to values: a key that is  *)
(*     absent is not in the DOMAIN, a key holding undefined is;            *)
(*   - an array is a cell of the heap, named by a reference, so that two   *)
(*     variables holding the same array see each other's mutations.        *)
(***************************************************************************)
EXTENDS Integers, Sequences, FiniteSets, TLC

(***************************************************************************)
(* Strings                                                                 *)
(***************************************************************************)
Undefined == <<"<undefined>">>
Null      == <<"<null>">>
EmptyStr  == <<>>
EmptyObj  == <<>>

\* The characters used by the model's strings and their UTF-16 code units.
CharCode(c) ==
    CASE c = "-" -> 45
      [] c = "0" -> 48 [] c = "1" -> 49 [] c = "2" -> 50 [] c = "3" -> 51
      [] c = "4" -> 52 [] c = "5" -> 53 [] c = "6" -> 54 [] c = "7" -> 55
      [] c = "8" -> 56 [] c = "9" -> 57
      [] c = "A" -> 65 [] c = "B" -> 66 [] c = "S" -> 83 [] c = "U" -> 85
      [] c = "a" -> 97 [] c = "b" -> 98 [] c = "e" -> 101 [] c = "n" -> 110
      [] c = "s" -> 115 [] c = "u" -> 117 [] c = "w" -> 119

\* String.prototype.toLowerCase, one character.
LowerChar(c) ==
    IF CharCode(c) >= 65 /\ CharCode(c) <= 90
    THEN CASE c = "A" -> "a" [] c = "B" -> "b" [] c = "S" -> "s"
           [] c = "U" -> "u"
    ELSE c

ToLowerCase(s) == [i \in DOMAIN s |-> LowerChar(s[i])]

\* String.prototype.includes
Includes(s, sub) ==
    \E i \in 0..(Len(s) - Len(sub)) : SubSeq(s, i + 1, i + Len(sub)) = sub

\* JavaScript's relational comparison of two strings: by code units,
\* a proper prefix being smaller.
RECURSIVE StrLess(_, _)
StrLess(s, t) ==
    IF t = <<>> THEN FALSE
    ELSE IF s = <<>> THEN TRUE
    ELSE IF CharCode(Head(s)) # CharCode(Head(t))
         THEN CharCode(Head(s)) < CharCode(Head(t))
         ELSE StrLess(Tail(s), Tail(t))

StrGeq(s, t) == ~StrLess(s, t)
StrLeq(s, t) == ~StrLess(t, s)

\* String.prototype.localeCompare on ASCII letters: letters compare without
\* regard to case first; strings equal up to case are ordered lower case first
\* at the first position where the case differs.
RECURSIVE PrimaryCompare(_, _)
PrimaryCompare(s, t) ==
    IF s = <<>> /\ t = <<>> THEN 0
    ELSE IF s = <<>> THEN -1
    ELSE IF t = <<>> THEN 1
    ELSE LET a == CharCode(LowerChar(Head(s)))
             b == CharCode(LowerChar(Head(t)))
         IN IF a < b THEN -1 ELSE IF a > b THEN 1
            ELSE PrimaryCompare(Tail(s), Tail(t))

RECURSIVE CaseCompare(_, _)
CaseCompare(s, t) ==
    IF s = <<>> \/ t = <<>> THEN 0
    ELSE IF Head(s) = Head(t) THEN CaseCompare(Tail(s), Tail(t))
    ELSE IF LowerChar(Head(s)) = Head(s) THEN -1 ELSE 1

LocaleCompare(s, t) ==
    IF PrimaryCompare(s, t) # 0 THEN PrimaryCompare(s, t) ELSE CaseCompare(s, t)

(***************************************************************************)
(* Dates                                                                   *)
(***************************************************************************)
DigitVal(c) == CharCode(c) - 48

\* The two-digit number at s[i], s[i + 1].
Num2(s, i) == DigitVal(s[i]) * 10 + DigitVal(s[i + 1])

Year(s) == Num2(s, 1) * 100 + Num2(s, 3)

\* The day of a year that begins on 1 March, 0-based.
DayOfYear(m, d) == (153 * (IF m > 2 THEN m - 3 ELSE m + 9) + 2) \div 5 + d - 1

\* The day of a 400-year era, 0-based.
DayOfEra(yoe, doy) == yoe * 365 + yoe \div 4 - yoe \div 100 + doy

\* The days from 1970-01-01 to day d of month m of the year that begins on
\* 1 March of year y.
DaysFromCivil(y, m, d) ==
    (y \div 400) * 146097 + DayOfEra(y % 400, DayOfYear(m, d)) - 719468

\* new Date("YYYY-MM-DD").getTime(), in days since the epoch instead of
\* milliseconds (the values are only subtracted and compared with zero).
DateGetTime(s) ==
    DaysFromCivil(IF Num2(s, 6) <= 2 THEN Year(s) - 1 ELSE Year(s),
                  Num2(s, 6), Num2(s, 9))

\* new Date().toISOString() and new Date(iso).getTime() on the model's clock
\* (milliseconds since the process started).
ToISOString(ms) == [iso |-> ms]
DateParse(d) == d.iso

(***************************************************************************)
(* Objects                                                                 *)
(***************************************************************************)
HasKey(o, k) == k \in DOMAIN o

\* Property read: an absent key reads as undefined.
Get(o, k) == IF k \in DOMAIN o THEN o[k] ELSE Undefined

\* Object spread { ...a, ...b }
Spread(a, b) ==
    [k \in DOMAIN a \cup DOMAIN b |-> IF k \in DOMAIN b THEN b[k] ELSE a[k]]

\* Truthiness of a string-typed slot.
Truthy(v) == v # Undefined /\ v # Null /\ v # EmptyStr

\* v ?? undefined
NullishToUndefined(v) == IF v = Null THEN Undefined ELSE v

\* JSON.stringify followed by JSON.parse of one object: a key holding
\* undefined is dropped.
OptionalStringKeys == {"description", "dateTaken"}

JSONRoundTripObj(o) ==
    [k \in {j \in DOMAIN o : ~(j \in OptionalStringKeys /\ o[j] = Undefined)}
        |-> o[k]]

JSONRoundTrip(arr) == [i \in DOMAIN arr |-> JSONRoundTripObj(arr[i])]

(***************************************************************************)
(* Arrays (values)                                                         *)
(***************************************************************************)
Elems(arr) == {arr[i] : i \in DOMAIN arr}

\* Array.prototype.findIndex(p => p.id === id), 0-based, -1 when absent.
FindIndex(arr, id) ==
    IF \E i \in DOMAIN arr : arr[i].id = id
    THEN (CHOOSE i \in DOMAIN arr :
            arr[i].id = id /\ \A j \in 1..(i - 1) : arr[j].id # id) - 1
    ELSE -1

\* Array.prototype.splice(index, 1), 0-based index.
Splice1(arr, index) ==
    SubSeq(arr, 1, index) \o SubSeq(arr, index + 2, Len(arr))

(***************************************************************************)
(* getAllPhotos: the filters                                               *)
(***************************************************************************)
SearchActive(filters) == HasKey(filters, "search") /\ Truthy(filters.search)
TagsActive(filters) == HasKey(filters, "tags") /\ Len(filters.tags) > 0
FavoritesActive(filters) ==
    HasKey(filters, "favoritesOnly") /\ filters.favoritesOnly
FromActive(filters) ==
    HasKey(filters, "dateRange") /\ Truthy(Get(filters.dateRange, "from"))
ToActive(filters) ==
    HasKey(filters, "dateRange") /\ Truthy(Get(filters.dateRange, "to"))

\* p.description?.toLowerCase().includes(searchLower)
DescriptionIncludes(p, searchLower) ==
    LET d == Get(p, "description")
    IN d # Undefined /\ d # Null /\ Includes(ToLowerCase(d), searchLower)

SearchTest(p, searchLower) ==
    \/ Includes(ToLowerCase(p.title), searchLower)
    \/ DescriptionIncludes(p, searchLower)
    \/ \E i \in DOMAIN p.tags : Includes(ToLowerCase(p.tags[i]), searchLower)

\* A tags test that wants every requested tag (ALL-match).
TagsTestEvery(p, tags) ==
    \A i \in DOMAIN tags : \E j \in DOMAIN p.tags : p.tags[j] = tags[i]

\* filters.tags.some((tag) => p.tags.includes(tag))
TagsTest(p, tags) ==
    \E i \in DOMAIN tags : \E j \in DOMAIN p.tags : p.tags[j] = tags[i]

FromTest(p, from) ==
    Truthy(Get(p, "dateTaken")) /\ StrGeq(p.dateTaken, from)

ToTest(p, to) ==
    Truthy(Get(p, "dateTaken")) /\ StrLeq(p.dateTaken, to)

FilterSearch(photos, filters) ==
    IF SearchActive(filters)
    THEN LET searchLower == ToLowerCase(filters.search)
             Test(p) == SearchTest(p, searchLower)
         IN SelectSeq(photos, Test)
    ELSE photos

FilterTags(photos, filters) ==
    IF TagsActive(filters)
    THEN LET Test(p) == TagsTest(p, filters.tags) IN SelectSeq(photos, Test)
    ELSE photos

FilterFavorites(photos, filters) ==
    IF FavoritesActive(filters)
    THEN LET Test(p) == p.isFavorite IN SelectSeq(photos, Test)
    ELSE photos

FilterFrom(photos, filters) ==
    IF FromActive(filters)
    THEN LET Test(p) == FromTest(p, filters.dateRange.from)
         IN SelectSeq(photos, Test)
    ELSE photos

FilterTo(photos, filters) ==
    IF ToActive(filters)
    THEN LET Test(p) == ToTest(p, filters.dateRange.to)
         IN SelectSeq(photos, Test)
    ELSE photos

ApplyFilters(photos, filters) ==
    FilterTo(FilterFrom(FilterFavorites(FilterTags(
        FilterSearch(photos, filters), filters), filters), filters), filters)

\* Array.prototype.filter returns a new array: the result of getAllPhotos is
\* the array readPhotos returned unless some filter ran.
FilterRan(filters) ==
    \/ SearchActive(filters) \/ TagsActive(filters) \/ FavoritesActive(filters)
    \/ FromActive(filters) \/ ToActive(filters)

(***************************************************************************)
(* getAllPhotos: the sort                                                  *)
(***************************************************************************)
SortOptions ==
    {"dateAdded-desc", "dateAdded-asc", "dateTaken-desc", "dateTaken-asc",
     "title-asc", "title-desc", "favorites-first"}

\* A dateTaken comparator with the arguments in the wrong halves: a record
\* lacking dateTaken is put first.
DateTakenCompareMissingFirst(a, b, descending) ==
    IF ~Truthy(Get(a, "dateTaken")) THEN -1
    ELSE IF ~Truthy(Get(b, "dateTaken")) THEN 1
    ELSE IF descending
         THEN DateGetTime(b.dateTaken) - DateGetTime(a.dateTaken)
         ELSE DateGetTime(a.dateTaken) - DateGetTime(b.dateTaken)

\* if (!a.dateTaken) return 1; if (!b.dateTaken) return -1;
\* return new Date(..).getTime() - new Date(..).getTime();
DateTakenCompare(a, b, descending) ==
    IF ~Truthy(Get(a, "dateTaken")) THEN 1
    ELSE IF ~Truthy(Get(b, "dateTaken")) THEN -1
    ELSE IF descending
         THEN DateGetTime(b.dateTaken) - DateGetTime(a.dateTaken)
         ELSE DateGetTime(a.dateTaken) - DateGetTime(b.dateTaken)

\* The comparator handed to photos.sort.
Compare(sort, a, b) ==
    CASE sort = "dateAdded-desc" ->
            DateParse(b.dateAdded) - DateParse(a.dateAdded)
      [] sort = "dateAdded-asc" ->
            DateParse(a.dateAdded) - DateParse(b.dateAdded)
      [] sort = "dateTaken-desc" -> DateTakenCompare(a, b, TRUE)
      [] sort = "dateTaken-asc" -> DateTakenCompare(a, b, FALSE)
      [] sort = "title-asc" -> LocaleCompare(a.title, b.title)
      [] sort = "title-desc" -> LocaleCompare(b.title, a.title)
      [] sort = "favorites-first" ->
            IF a.isFavorite = b.isFavorite
            THEN DateParse(b.dateAdded) - DateParse(a.dateAdded)
            ELSE IF a.isFavorite THEN -1 ELSE 1
      [] OTHER -> 0

\* Array.prototype.sort as the Node.js runtime performs it on an array of
\* fewer than 64 elements: the leading run is found (and reversed when it is
\* strictly descending), then the remaining elements are inserted one by one
\* by binary search.  Every comparison is a call of the comparator, so the
\* result is exact for a comparator that is not a consistent order, too.
ReverseSeq(s) == [i \in DOMAIN s |-> s[Len(s) + 1 - i]]

\* The length of the run beginning at the first element; idx is the 1-based
\* index of the next element to compare with its predecessor.
RECURSIVE RunLength(_, _, _, _)
RunLength(arr, sort, descending, idx) ==
    IF idx > Len(arr) THEN idx - 1
    ELSE LET order == Compare(sort, arr[idx], arr[idx - 1])
         IN IF (descending /\ order >= 0) \/ (~descending /\ order < 0)
            THEN idx - 1
            ELSE RunLength(arr, sort, descending, idx + 1)

\* The 0-based insertion point of pivot in the sorted prefix arr[left..right).
RECURSIVE BinarySearch(_, _, _, _, _)
BinarySearch(arr, sort, pivot, left, right) ==
    IF left >= right THEN left
    ELSE LET mid == left + ((right - left) \div 2)
         IN IF Compare(sort, pivot, arr[mid + 1]) < 0
            THEN BinarySearch(arr, sort, pivot, left, mid)
            ELSE BinarySearch(arr, sort, pivot, mid + 1, right)

\* start is the 0-based index of the next element to insert.
RECURSIVE BinaryInsertionSort(_, _, _)
BinaryInsertionSort(arr, sort, start) ==
    IF start >= Len(arr) THEN arr
    ELSE LET pivot == arr[start + 1]
             left  == BinarySearch(arr, sort, pivot, 0, start)
             moved == SubSeq(arr, 1, left) \o <<pivot>>
                      \o SubSeq(arr, left + 1, start)
                      \o SubSeq(arr, start + 2, Len(arr))
         IN BinaryInsertionSort(moved, sort, start + 1)

ArraySort(arr, sort) ==
    IF Len(arr) < 2 THEN arr
    ELSE LET descending == Compare(sort, arr[2], arr[1]) < 0
             run == RunLength(arr, sort, descending, 3)
             made == IF descending
                     THEN ReverseSeq(SubSeq(arr, 1, run))
                          \o SubSeq(arr, run + 1, Len(arr))
                     ELSE arr
         IN BinaryInsertionSort(made, sort, run)

\* The value getAllPhotos returns for the array readPhotos gave it.
GetAllPhotos(photos, filters, sort) ==
    ArraySort(ApplyFilters(photos, filters), sort)

(***************************************************************************)
(* The mutations, as functions of the array readPhotos returned            *)
(***************************************************************************)
\* A createPhoto that counts the new record in: position = photos.length + 1.
NewPhotoOffByOne(data, id, clock, rotation, photos) ==
    Spread(data,
           [id |-> id,
            dateAdded |-> ToISOString(clock),
            tags |-> IF HasKey(data, "tags") THEN data.tags ELSE <<>>,
            isFavorite |-> IF HasKey(data, "isFavorite")
                           THEN data.isFavorite ELSE FALSE,
            frameColor |-> IF HasKey(data, "frameColor")
                           THEN data.frameColor ELSE "white",
            rotation |-> rotation,
            position |-> Len(photos) + 1])

\* createPhoto: the new record.
NewPhoto(data, id, clock, rotation, photos) ==
    Spread(data,
           [id |-> id,
            dateAdded |-> ToISOString(clock),
            tags |-> IF HasKey(data, "tags") THEN data.tags ELSE <<>>,
            isFavorite |-> IF HasKey(data, "isFavorite")
                           THEN data.isFavorite ELSE FALSE,
            frameColor |-> IF HasKey(data, "frameColor")
                           THEN data.frameColor ELSE "white",
            rotation |-> rotation,
            position |-> Len(photos)])

\* A not-found test that never answers not-found.
MissingNever(index) == FALSE

\* if (index === -1) return null / false
Missing(index) == index = -1

\* updatePhoto: photos[index] = { ...photos[index], ...data }
UpdateAt(photos, index, data) ==
    [i \in DOMAIN photos |->
        IF i = index + 1 THEN Spread(photos[i], data) ELSE photos[i]]

\* deletePhoto: splice, then photo.position = i for every remaining record.
DeleteAt(photos, index) ==
    LET rest == Splice1(photos, index)
    IN [i \in DOMAIN rest |-> [rest[i] EXCEPT !.position = i - 1]]

\* reorderPhotos: new Map(photos.map(p => [p.id, p])).get(id): the last
\* record of the array with that id, or undefined.
MapHas(photos, id) == \E i \in DOMAIN photos : photos[i].id = id
MapGet(photos, id) ==
    photos[CHOOSE i \in DOMAIN photos :
             photos[i].id = id
             /\ \A j \in (i + 1)..Len(photos) : photos[j].id # id]

\* orderedIds.map(...).filter(p => p !== null), from the 1-based index k on.
RECURSIVE ReorderListed(_, _, _)
ReorderListed(photos, orderedIds, k) ==
    IF k > Len(orderedIds) THEN <<>>
    ELSE (IF MapHas(photos, orderedIds[k])
          THEN <<[MapGet(photos, orderedIds[k]) EXCEPT !.position = k - 1]>>
          ELSE <<>>)
         \o ReorderListed(photos, orderedIds, k + 1)

\* photos.forEach: push every record whose id is not listed, from the
\* 1-based index k on, onto reordered.
RECURSIVE ReorderRest(_, _, _, _)
ReorderRest(photos, orderedIds, reordered, k) ==
    IF k > Len(photos) THEN reordered
    ELSE ReorderRest(photos, orderedIds,
            IF \E i \in DOMAIN orderedIds : orderedIds[i] = photos[k].id
            THEN reordered
            ELSE Append(reordered,
                        [photos[k] EXCEPT !.position = Len(reordered)]),
            k + 1)

Reorder(photos, orderedIds) ==
    ReorderRest(photos, orderedIds, ReorderListed(photos, orderedIds, 1), 1)

(***************************************************************************)
(* Validation (zod schemas)                                                *)
(***************************************************************************)
MaxTitleLen == 100
MaxDescriptionLen == 500
MaxTagLen == 30
MaxTags == 10
FrameColors == {"white", "cream", "pink", "lavender", "mint", "peach"}

TagsValid(tags) ==
    Len(tags) <= MaxTags /\ \A i \in DOMAIN tags : Len(tags[i]) <= MaxTagLen

\* createPhotoSchema.safeParse(body).success
CreateValid(body) ==
    /\ HasKey(body, "imageUrl") /\ body.imageUrl # Null
    /\ Len(body.imageUrl) >= 1
    /\ HasKey(body, "title") /\ body.title # Null
    /\ Len(body.title) >= 1 /\ Len(body.title) <= MaxTitleLen
    /\ HasKey(body, "description") =>
          body.description # Null /\ Len(body.description) <= MaxDescriptionLen
    /\ HasKey(body, "dateTaken") => body.dateTaken # Null
    /\ HasKey(body, "tags") => TagsValid(body.tags)
    /\ HasKey(body, "frameColor") => body.frameColor \in FrameColors

\* createPhotoSchema.safeParse(body).data: unknown keys are stripped and the
\* defaults are filled in.
CreateKeys ==
    {"imageUrl", "title", "description", "dateTaken", "tags", "isFavorite",
     "frameColor"}

CreateData(body) ==
    Spread([tags |-> <<>>, isFavorite |-> FALSE, frameColor |-> "white"],
           [k \in DOMAIN body \cap CreateKeys |-> body[k]])

\* An update schema without the bounds of title.
UpdateValidAnyTitle(body) ==
    /\ HasKey(body, "description") =>
          body.description = Null \/ Len(body.description) <= MaxDescriptionLen
    /\ HasKey(body, "tags") => TagsValid(body.tags)
    /\ HasKey(body, "frameColor") => body.frameColor \in FrameColors
    /\ HasKey(body, "position") => body.position >= 0

\* updatePhotoSchema.safeParse(body).success
UpdateValid(body) ==
    /\ HasKey(body, "title") =>
          /\ body.title # Null
          /\ Len(body.title) >= 1 /\ Len(body.title) <= MaxTitleLen
    /\ HasKey(body, "description") =>
          body.description = Null \/ Len(body.description) <= MaxDescriptionLen
    /\ HasKey(body, "tags") => TagsValid(body.tags)
    /\ HasKey(body, "frameColor") => body.frameColor \in FrameColors
    /\ HasKey(body, "position") => body.position >= 0

UpdateKeys ==
    {"title", "description", "dateTaken", "tags", "isFavorite", "frameColor",
     "position"}

\* updatePhotoSchema.safeParse(body).data
UpdateParsed(body) == [k \in DOMAIN body \cap UpdateKeys |-> body[k]]

\* PUT: updateData = { ...data, description: data.description ?? undefined,
\*                     dateTaken: data.dateTaken ?? undefined }
UpdateData(body) ==
    LET data == UpdateParsed(body)
    IN Spread(data,
              [description |-> NullishToUndefined(Get(data, "description")),
               dateTaken |-> NullishToUndefined(Get(data, "dateTaken"))])

(***************************************************************************)
(* Bounds and inputs                                                       *)
(***************************************************************************)
CACHE_TTL == 5000

\* The most records ever created (ids are 1..MaxPhotos, in creation order).
MaxPhotos == 3
\* The longest orderedIds list handed to reorderPhotos.
MaxOrderLen == 2
\* The longest array reorderPhotos may build (it can repeat records).
MaxLen == 4
\* The most requests received in one run.
MaxRequests == 2
\* The clock runs for MaxTicks steps of half the TTL.
MaxTicks == 2
TickMs == CACHE_TTL \div 2

\* Request handlers that may be in progress at once in the server process.
Handlers == {1, 2}
\* Array references: one per handler and one for the cache.
Refs == 1..(Cardinality(Handlers) + 1)

Ids == 1..MaxPhotos

S_Sun == <<"S", "u", "n">>
S_ab  == <<"a", "b">>
S_B   == <<"B">>
S_sea == <<"s", "e", "a">>
S_b   == <<"b">>
S_w   == <<"w">>
S_url == <<"/", "u">>
D_Jan05 == <<"2", "0", "2", "4", "-", "0", "1", "-", "0", "5">>
D_Jan10 == <<"2", "0", "2", "4", "-", "0", "1", "-", "1", "0">>
D_Dec31 == <<"2", "0", "2", "3", "-", "1", "2", "-", "3", "1">>

\* Math.random() * 8 - 4
Rotations == {-2, 3}

\* Bodies of POST /photos.
CreateBodies ==
    { [imageUrl |-> S_url, title |-> S_Sun, description |-> S_sea,
       dateTaken |-> D_Jan05, tags |-> <<S_b>>],
      [imageUrl |-> S_url, title |-> S_ab, dateTaken |-> EmptyStr,
       isFavorite |-> TRUE, frameColor |-> "pink"],
      [imageUrl |-> S_url, title |-> EmptyStr] }

\* Bodies of PUT /photos/{id}.
UpdateBodies ==
    { [isFavorite |-> TRUE],
      [title |-> S_B, id |-> 0],
      [description |-> Null, tags |-> <<S_w>>],
      [title |-> EmptyStr] }

\* Arguments of a direct updatePhoto call.
UpdateArgs == { [isFavorite |-> TRUE] }

RECURSIVE SeqsUpTo(_, _)
SeqsUpTo(S, n) ==
    IF n = 0 THEN {<<>>}
    ELSE LET shorter == SeqsUpTo(S, n - 1)
         IN shorter \cup {Append(q, x) : q \in shorter, x \in S}

OrderLists == SeqsUpTo(Ids, MaxOrderLen)

\* Arguments of getAllPhotos.
ListFilters ==
    { EmptyObj, [search |-> S_Sun], [favoritesOnly |-> TRUE] }
ListSorts == {"dateAdded-desc", "title-asc", "dateTaken-asc"}

(***************************************************************************)
(* State                                                                   *)
(***************************************************************************)
VARIABLES
    heap,           \* the arrays: reference -> sequence of records
    memoryCache,    \* 0 (null) or the reference of the cached array
    lastFetchTime,
    now,            \* Date.now()
    blob,           \* the photos-data.json blob of the backend
    nextId,         \* the next id uuidv4 hands out
    req,            \* the request handlers: position and local variables
    started,        \* the number of requests received so far
    hist,           \* history: what the calls of readPhotos and writePhotos
                    \* did (kept by SpecCache only, for the cache properties)
    \* One instance of usePolling in a page of the browser.
    mounted,        \* "no", "yes" (its effects have run) or "gone" (unmounted)
    options,        \* the callback and the options of the last render
    hidden,         \* document.hidden
    intervalRef,    \* intervalRef.current: the timer, or NoTimer for null
    isPollingRef,   \* isPollingRef.current
    inFlight,       \* the invocations of the callback that have not settled
    called,         \* the last call of executeCallback: who, and whether it
                    \* invoked the callback
    settled,        \* how the last invocation settled
    \* The gallery store of the page and the requests of usePhotos.
    mirror,         \* useGalleryStore: photos
    sortOption,     \* useGalleryStore: sortOption
    isLoading,      \* useGalleryStore: isLoading
    error,          \* useGalleryStore: error
    allTags,        \* useGalleryStore: allTags
    toast,          \* the toast the last step of the page showed
    calls           \* the HTTP requests of usePhotos that have not resolved

storeVars ==
    <<heap, memoryCache, lastFetchTime, now, blob, nextId, req, started, hist>>
pollVars ==
    <<mounted, options, hidden, intervalRef, isPollingRef, inFlight, called,
      settled>>
mirrorVars ==
    <<mirror, sortOption, isLoading, error, allTags, toast, calls>>
clientVars == <<pollVars, mirrorVars>>
vars == <<storeVars, clientVars>>

NoRet == [tag |-> "none", photos |-> <<>>]
NullRet == [tag |-> "null", photos |-> <<>>]
UndefinedRet == [tag |-> "undefined", photos |-> <<>>]
PhotoRet(p) == [tag |-> "photo", photos |-> <<p>>]
BoolRet(b) == [tag |-> IF b THEN "true" ELSE "false", photos |-> <<>>]
ListRet(arr) == [tag |-> "list", photos |-> arr]

IdleReq ==
    [pc |-> "idle", http |-> "none", kind |-> "none", id |-> 0,
     body |-> EmptyObj, arg |-> EmptyObj, sort |-> "none", photos |-> 0,
     index |-> -1,
     now0 |-> 0,
     ret |-> NoRet, status |-> 0, success |-> FALSE, overlapped |-> FALSE]

NoBlob == [exists |-> FALSE, doc |-> <<>>]

\* The history of the cache.  `write` is the last call of writePhotos (with
\* `before`, the collection persisted when it was called), `fill`
\* the last assignment to memoryCache (`at`: when it happened, `stamp`: the
\* time readPhotos or writePhotos took for it), `begin[h]` what handler h's
\* read in progress found when it began, `read` the last read that resolved,
\* `snap` the creates whose read the backend answered before any writePhotos
\* call and `puts` the handlers whose put completed, in that order (0: another
\* process).
NoBegin ==
    [cached |-> FALSE, filledAt |-> 0, stamp |-> 0, next |-> FALSE,
     afterFail |-> FALSE]
NoRead ==
    [how |-> "none", at |-> 0, ret |-> <<>>, hadCache |-> FALSE,
     cached |-> <<>>, exists |-> FALSE, doc |-> <<>>, ext |-> FALSE,
     begin |-> NoBegin]
NoWrite ==
    [called |-> FALSE, photos |-> <<>>, before |-> <<>>, at |-> 0, by |-> 0,
     failed |-> FALSE]
NoHist ==
    [write |-> NoWrite,
     fill |-> [at |-> 0, stamp |-> 0, ext |-> FALSE],
     begin |-> [h \in Handlers |-> NoBegin],
     read |-> NoRead,
     nextTaken |-> FALSE,
     snap |-> {},
     puts |-> <<>>]

\* The document a list of POST bodies has left in the backend before the
\* server process starts (its clock starts at 0, so these records were added
\* at negative times, one tick apart).
RECURSIVE StoredDoc(_, _)
StoredDoc(bodies, n) ==
    IF n = 0 THEN <<>>
    ELSE LET photos == StoredDoc(bodies, n - 1)
         IN Append(photos,
                   NewPhoto(CreateData(bodies[n]), n,
                            (n - 1 - Len(bodies)) * TickMs, n - 2, photos))

\* usePolling before the component mounts; `interval = 15000`,
\* `enabled = true`, `immediate = false` are the defaults of the options.
DefaultInterval == 15000
NoTimer == [set |-> FALSE, interval |-> 0, onError |-> 0]
DefaultOptions ==
    [callback |-> 1, interval |-> DefaultInterval, enabled |-> TRUE,
     immediate |-> FALSE, onError |-> 0]
NotCalled == [by |-> "none", invoked |-> FALSE]
NotSettled == [how |-> "none", onError |-> 0]
PollStart(pageHidden) ==
    /\ mounted = "no"
    /\ options = DefaultOptions
    /\ hidden = pageHidden
    /\ intervalRef = NoTimer
    /\ isPollingRef = FALSE
    /\ inFlight = <<>>
    /\ called = NotCalled
    /\ settled = NotSettled

\* The gallery store as created: photos: [], sortOption: 'dateAdded-desc',
\* isLoading: false, error: null, allTags: []; no toast is on the screen.
NoError == "null"
NoToast == "none"
MirrorIdle ==
    /\ mirror = <<>>
    /\ sortOption = "dateAdded-desc"
    /\ isLoading = FALSE
    /\ error = NoError
    /\ allTags = <<>>
    /\ toast = NoToast
    /\ calls = <<>>

\* The server process starts, the backend holding the document of `bodies`.
StoreInit(bodies) ==
    /\ heap = [r \in Refs |-> <<>>]
    /\ memoryCache = 0
    /\ lastFetchTime = 0
    /\ now = 0
    /\ blob = IF Len(bodies) = 0 THEN NoBlob
              ELSE [exists |-> TRUE,
                    doc |-> JSONRoundTrip(StoredDoc(bodies, Len(bodies)))]
    /\ nextId = Len(bodies) + 1
    /\ req = [h \in Handlers |-> IdleReq]
    /\ started = 0
    /\ hist = NoHist

\* The server alone: no page is open.
InitWith(bodies) == StoreInit(bodies) /\ PollStart(FALSE) /\ MirrorIdle

Active(r) == r.pc \notin {"idle", "done"}

\* The array the cache holds, [] when the cache is null.
CacheContents == IF memoryCache = 0 THEN <<>> ELSE heap[memoryCache]

\* Two handlers in progress at the same time have overlapped.
MarkOverlap(rq) ==
    IF Cardinality({h \in Handlers : Active(rq[h])}) >= 2
    THEN [h \in Handlers |->
            IF Active(rq[h]) THEN [rq[h] EXCEPT !.overlapped = TRUE] ELSE rq[h]]
    ELSE rq

\* References in use, and the smallest ones that are free.
UsedRefs(cache, rq) == ({cache} \cup {rq[h].photos : h \in Handlers}) \ {0}
FreshRef(used) == CHOOSE r \in Refs \ used : \A q \in Refs \ used : r <= q

\* Arrays nobody references are collected.
Collect(hp, cache, rq) ==
    [r \in Refs |-> IF r \in UsedRefs(cache, rq) THEN hp[r] ELSE <<>>]

\* One step of handler h: its new record, the new cache reference and the
\* new heap.
Commit(h, r, cache, hp) ==
    LET rq == MarkOverlap([req EXCEPT ![h] = r])
    IN /\ req' = rq
       /\ memoryCache' = cache
       /\ heap' = Collect(hp, cache, rq)

(***************************************************************************)
(* readPhotos                                                              *)
(***************************************************************************)
OtherRefs(h) == {req[g].photos : g \in Handlers \ {h}} \ {0}

CacheFreshInclusive == memoryCache # 0 /\ (now - lastFetchTime) <= CACHE_TTL

CacheFresh == memoryCache # 0 /\ (now - lastFetchTime) < CACHE_TTL

\* The synchronous part of readPhotos, called by handler h whose record
\* becomes r: a cache hit returns the cached array itself; otherwise the
\* backend is asked.
BeginRead(h, r) ==
    /\ IF CacheFresh
       THEN Commit(h, [r EXCEPT !.pc = "body", !.photos = memoryCache,
                                !.now0 = 0],
                   memoryCache, heap)
       ELSE Commit(h, [r EXCEPT !.pc = "r_list", !.photos = 0, !.now0 = now],
                   memoryCache, heap)
    /\ UNCHANGED <<lastFetchTime, now, blob, nextId>>

ReadFailedEmpty(h) ==
    /\ LET f == FreshRef(OtherRefs(h))
       IN Commit(h, [req[h] EXCEPT !.pc = "body", !.photos = f],
                 memoryCache, [heap EXCEPT ![f] = <<>>])
    /\ UNCHANGED <<lastFetchTime, now, blob, nextId>>

\* catch: return memoryCache || []
ReadFailed(h) ==
    /\ IF memoryCache # 0
       THEN Commit(h, [req[h] EXCEPT !.pc = "body", !.photos = memoryCache],
                   memoryCache, heap)
       ELSE LET f == FreshRef(OtherRefs(h))
            IN Commit(h, [req[h] EXCEPT !.pc = "body", !.photos = f],
                      memoryCache, [heap EXCEPT ![f] = <<>>])
    /\ UNCHANGED <<lastFetchTime, now, blob, nextId>>

\* await list({ prefix }) throws.
ReadListFails(h) ==
    /\ req[h].pc = "r_list"
    /\ ReadFailed(h)

\* await list({ prefix }) finds no blob: memoryCache = []; return [];
ReadListEmpty(h) ==
    /\ req[h].pc = "r_list"
    /\ ~blob.exists
    /\ LET c == FreshRef(OtherRefs(h))
           f == FreshRef(OtherRefs(h) \cup {c})
       IN Commit(h, [req[h] EXCEPT !.pc = "body", !.photos = f], c,
                 [heap EXCEPT ![c] = <<>>, ![f] = <<>>])
    /\ lastFetchTime' = req[h].now0
    /\ UNCHANGED <<now, blob, nextId>>

\* await list({ prefix }) finds the blob.
ReadListFound(h) ==
    /\ req[h].pc = "r_list"
    /\ blob.exists
    /\ Commit(h, [req[h] EXCEPT !.pc = "r_fetch"], memoryCache, heap)
    /\ UNCHANGED <<lastFetchTime, now, blob, nextId>>

\* await fetch(url); await response.json(): the document is parsed into a
\* new array, which becomes the cache.
ReadFetchOk(h) ==
    /\ req[h].pc = "r_fetch"
    /\ blob.exists
    /\ LET f == FreshRef(OtherRefs(h))
       IN Commit(h, [req[h] EXCEPT !.pc = "body", !.photos = f], f,
                 [heap EXCEPT ![f] = blob.doc])
    /\ lastFetchTime' = req[h].now0
    /\ UNCHANGED <<now, blob, nextId>>

\* fetch throws, or the response is not OK (the blob is gone).
ReadFetchFails(h) ==
    /\ req[h].pc = "r_fetch"
    /\ ReadFailed(h)

(***************************************************************************)
(* writePhotos                                                             *)
(***************************************************************************)
\* The synchronous part of writePhotos(photos), run at the end of a
\* mutation's body: memoryCache = photos; lastFetchTime = Date.now().
\* r is the handler's new record and hp the heap holding the array r.photos.
BeginWrite(h, r, hp) ==
    /\ Commit(h, [r EXCEPT !.pc = "w_list"], r.photos, hp)
    /\ lastFetchTime' = now

\* What the mutation returns once writePhotos has returned: updatePhoto
\* returns photos[index], read at that moment.
ReturnAfterWrite(r) ==
    IF r.kind = "updatePhoto"
    THEN IF r.index >= 0 /\ r.index < Len(heap[r.photos])
         THEN PhotoRet(heap[r.photos][r.index + 1])
         ELSE UndefinedRet
    ELSE r.ret

\* await list({ prefix }) in writePhotos.
WriteListOk(h) ==
    /\ req[h].pc = "w_list"
    /\ Commit(h, [req[h] EXCEPT !.pc = IF blob.exists THEN "w_del" ELSE "w_put"],
              memoryCache, heap)
    /\ UNCHANGED <<lastFetchTime, now, blob, nextId>>

\* await del(blob.url)
WriteDelOk(h) ==
    /\ req[h].pc = "w_del"
    /\ blob' = NoBlob
    /\ Commit(h, [req[h] EXCEPT !.pc = "w_put"], memoryCache, heap)
    /\ UNCHANGED <<lastFetchTime, now, nextId>>

WritePutFirstWins(h) ==
    /\ req[h].pc = "w_put"
    /\ blob' = IF blob.exists THEN blob
               ELSE [exists |-> TRUE,
                     doc |-> JSONRoundTrip(heap[req[h].photos])]
    /\ Commit(h, [req[h] EXCEPT !.pc = "done", !.photos = 0, !.index = -1,
                                 !.ret = ReturnAfterWrite(req[h])],
              memoryCache, heap)
    /\ UNCHANGED <<lastFetchTime, now, nextId>>

\* JSON.stringify(photos); await put(...)
WritePutOk(h) ==
    /\ req[h].pc = "w_put"
    /\ blob' = [exists |-> TRUE, doc |-> JSONRoundTrip(heap[req[h].photos])]
    /\ Commit(h, [req[h] EXCEPT !.pc = "done", !.photos = 0, !.index = -1,
                                 !.ret = ReturnAfterWrite(req[h])],
              memoryCache, heap)
    /\ UNCHANGED <<lastFetchTime, now, nextId>>

\* list, del or put throws: the error is logged and writePhotos returns.
WriteFails(h) ==
    /\ req[h].pc \in {"w_list", "w_del", "w_put"}
    /\ Commit(h, [req[h] EXCEPT !.pc = "done", !.photos = 0, !.index = -1,
                                 !.ret = ReturnAfterWrite(req[h])],
              memoryCache, heap)
    /\ UNCHANGED <<lastFetchTime, now, blob, nextId>>

\* The handler returns without writing.
Finish(h, r) ==
    /\ Commit(h, [r EXCEPT !.pc = "done", !.photos = 0], memoryCache, heap)
    /\ UNCHANGED <<lastFetchTime, now, blob, nextId>>

(***************************************************************************)
(* Requests                                                                *)
(***************************************************************************)
Idle(h) == req[h].pc = "idle"

\* Creates in progress that have not drawn their id yet.
PendingCreates ==
    Cardinality({h \in Handlers :
                    req[h].kind = "createPhoto"
                    /\ req[h].pc \in {"r_list", "r_fetch", "body"}})

\* POST /api/photos
StartPost(h, body) ==
    /\ Idle(h)
    /\ IF CreateValid(body)
       THEN /\ nextId + PendingCreates <= MaxPhotos
            /\ BeginRead(h, [IdleReq EXCEPT !.http = "POST",
                                            !.kind = "createPhoto",
                                            !.arg = CreateData(body)])
       ELSE Finish(h, [IdleReq EXCEPT !.http = "POST", !.status = 400])

\* PUT /api/photos/[id]
StartPut(h, id, body) ==
    /\ Idle(h)
    /\ BeginRead(h, [IdleReq EXCEPT !.http = "PUT", !.kind = "getPhotoById",
                                    !.id = id, !.body = body])

\* DELETE /api/photos/[id]
StartDelete(h, id) ==
    /\ Idle(h)
    /\ BeginRead(h, [IdleReq EXCEPT !.http = "DELETE",
                                    !.kind = "getPhotoById", !.id = id])

\* GET /api/photos/[id]
StartGet(h, id) ==
    /\ Idle(h)
    /\ BeginRead(h, [IdleReq EXCEPT !.http = "GET", !.kind = "getPhotoById",
                                    !.id = id])

\* A call of a store function from outside the endpoints.
StartGetPhotoById(h, id) ==
    /\ Idle(h)
    /\ BeginRead(h, [IdleReq EXCEPT !.kind = "getPhotoById", !.id = id])

StartUpdatePhoto(h, id, data) ==
    /\ Idle(h)
    /\ BeginRead(h, [IdleReq EXCEPT !.kind = "updatePhoto", !.id = id,
                                    !.arg = data])

StartDeletePhoto(h, id) ==
    /\ Idle(h)
    /\ BeginRead(h, [IdleReq EXCEPT !.kind = "deletePhoto", !.id = id])

StartReorderPhotos(h, orderedIds) ==
    /\ Idle(h)
    /\ BeginRead(h, [IdleReq EXCEPT !.kind = "reorderPhotos",
                                    !.arg = orderedIds])

StartGetAllPhotos(h, filters, sort) ==
    /\ Idle(h)
    /\ BeginRead(h, [IdleReq EXCEPT !.kind = "getAllPhotos",
                                    !.arg = filters, !.sort = sort])

\* The response is sent (or the caller takes the returned value).
Respond(h) ==
    /\ req[h].pc = "done"
    /\ Commit(h, IdleReq, memoryCache, heap)
    /\ UNCHANGED <<lastFetchTime, now, blob, nextId>>

(***************************************************************************)
(* The bodies of the store functions, run once readPhotos has resolved     *)
(***************************************************************************)
InBody(h, kind) == req[h].pc = "body" /\ req[h].kind = kind

\* getPhotoById, and what its caller does with the result.
GetByIdBody(h) ==
    /\ InBody(h, "getPhotoById")
    /\ LET r == req[h]
           index == FindIndex(heap[r.photos], r.id)
           ret == IF index = -1 THEN NullRet
                  ELSE PhotoRet(heap[r.photos][index + 1])
       IN CASE r.http = "none" ->
                 Finish(h, [r EXCEPT !.ret = ret])
            [] r.http = "GET" ->
                 Finish(h, [r EXCEPT !.ret = ret,
                                     !.status = IF index = -1 THEN 404 ELSE 200,
                                     !.success = index # -1])
            [] r.http = "PUT" ->
                 IF index = -1
                 THEN Finish(h, [r EXCEPT !.ret = ret, !.status = 404])
                 ELSE IF ~UpdateValid(r.body)
                 THEN Finish(h, [r EXCEPT !.status = 400])
                 ELSE BeginRead(h, [r EXCEPT !.kind = "updatePhoto",
                                             !.arg = UpdateData(r.body)])
            [] r.http = "DELETE" ->
                 IF index = -1
                 THEN Finish(h, [r EXCEPT !.ret = ret, !.status = 404])
                 ELSE BeginRead(h, [r EXCEPT !.kind = "deletePhoto"])

\* createPhoto
CreateBody(h, rotation) ==
    /\ InBody(h, "createPhoto")
    /\ Len(heap[req[h].photos]) < MaxLen
    /\   LET r == req[h]
             photos == heap[r.photos]
             newPhoto == NewPhoto(r.arg, nextId, now, rotation, photos)
         IN BeginWrite(h, [r EXCEPT !.ret = PhotoRet(newPhoto),
                                    !.status = 201, !.success = TRUE],
                       [heap EXCEPT ![r.photos] = Append(photos, newPhoto)])
    /\ nextId' = nextId + 1
    /\ UNCHANGED <<now, blob>>

\* updatePhoto; PUT answers 200 with whatever updatePhoto returned.
UpdateBody(h) ==
    /\ InBody(h, "updatePhoto")
    /\ LET r == req[h]
           photos == heap[r.photos]
           index == FindIndex(photos, r.id)
           ok == IF r.http = "PUT" THEN [r EXCEPT !.status = 200, !.success = TRUE]
                 ELSE r
       IN IF Missing(index)
          THEN Finish(h, [ok EXCEPT !.ret = NullRet])
          ELSE /\ BeginWrite(h, [ok EXCEPT !.index = index],
                             [heap EXCEPT ![r.photos] =
                                 UpdateAt(photos, index, r.arg)])
               /\ UNCHANGED <<now, blob, nextId>>

\* deletePhoto; DELETE answers 500 when deletePhoto returned false.
DeleteBody(h) ==
    /\ InBody(h, "deletePhoto")
    /\ LET r == req[h]
           photos == heap[r.photos]
           index == FindIndex(photos, r.id)
       IN IF Missing(index)
          THEN Finish(h, [r EXCEPT !.ret = BoolRet(FALSE),
                                   !.status = IF r.http = "DELETE" THEN 500 ELSE 0])
          ELSE /\ BeginWrite(h, [r EXCEPT !.ret = BoolRet(TRUE),
                                          !.status = IF r.http = "DELETE"
                                                     THEN 200 ELSE 0,
                                          !.success = r.http = "DELETE"],
                             [heap EXCEPT ![r.photos] = DeleteAt(photos, index)])
               /\ UNCHANGED <<now, blob, nextId>>

\* reorderPhotos: the reordered records go into a new array.
ReorderBody(h) ==
    /\ InBody(h, "reorderPhotos")
    /\ LET r == req[h]
           reordered == Reorder(heap[r.photos], r.arg)
           f == FreshRef(OtherRefs(h))
       IN /\ Len(reordered) <= MaxLen
          /\ BeginWrite(h, [r EXCEPT !.photos = f, !.ret = ListRet(reordered)],
                        [heap EXCEPT ![f] = reordered])
    /\ UNCHANGED <<now, blob, nextId>>

\* getAllPhotos: photos.sort sorts the array in place, which is the array
\* readPhotos returned unless a filter replaced it.
GetAllBody(h) ==
    /\ InBody(h, "getAllPhotos")
    /\ LET r == req[h]
           result == GetAllPhotos(heap[r.photos], r.arg, r.sort)
       IN /\ Commit(h, [r EXCEPT !.pc = "done", !.photos = 0,
                                 !.ret = ListRet(result)],
                    memoryCache,
                    IF FilterRan(r.arg) THEN heap
                    ELSE [heap EXCEPT ![r.photos] = result])
          /\ UNCHANGED <<lastFetchTime, now, blob, nextId>>

\* Time passes: `step` milliseconds, up to the horizon of the run.
Tick(step) ==
    /\ now + step <= MaxTicks * TickMs
    /\ now' = now + step
    /\ UNCHANGED <<heap, memoryCache, lastFetchTime, blob, nextId, req, started,
                   hist, clientVars>>

\* A request is received, at most `budget` of them in one run.
Receive(budget) == started < budget /\ started' = started + 1

ValidCreateBodies == {b \in CreateBodies : CreateValid(b)}

\* The store used by one request at a time.  The backend holds the records
\* of the first n POST bodies of InitialBodies when the process starts.
InitialBodies ==
    << [imageUrl |-> S_url, title |-> S_Sun, description |-> S_sea,
        dateTaken |-> D_Jan05, tags |-> <<S_b>>],
       [imageUrl |-> S_url, title |-> S_ab, dateTaken |-> EmptyStr,
        isFavorite |-> TRUE, frameColor |-> "pink"],
       [imageUrl |-> S_url, title |-> S_B, description |-> S_sea] >>

Init == \E n \in 0..MaxPhotos : InitWith(SubSeq(InitialBodies, 1, n))

Start(h) ==
    /\ Receive(MaxRequests)
    /\ UNCHANGED <<hist, clientVars>>
    /\ \/ \E body \in CreateBodies : StartPost(h, body)
       \/ \E id \in Ids, body \in UpdateBodies : StartPut(h, id, body)
       \/ \E id \in Ids : StartDelete(h, id)
       \/ \E id \in Ids : StartGet(h, id)
       \/ \E id \in Ids : StartGetPhotoById(h, id)
       \/ \E id \in Ids, data \in UpdateArgs : StartUpdatePhoto(h, id, data)
       \/ \E id \in Ids : StartDeletePhoto(h, id)
       \/ \E orderedIds \in OrderLists : StartReorderPhotos(h, orderedIds)
       \/ \E filters \in ListFilters, sort \in ListSorts :
             StartGetAllPhotos(h, filters, sort)

Read(h) ==
    /\ \/ ReadListFails(h) \/ ReadListEmpty(h) \/ ReadListFound(h)
       \/ ReadFetchOk(h) \/ ReadFetchFails(h)
    /\ UNCHANGED <<started, hist, clientVars>>

Body(h) ==
    /\ \/ GetByIdBody(h) \/ UpdateBody(h) \/ DeleteBody(h)
       \/ ReorderBody(h) \/ GetAllBody(h)
       \/ \E rotation \in Rotations : CreateBody(h, rotation)
    /\ UNCHANGED <<started, hist, clientVars>>

Write(h) ==
    /\ \/ WriteListOk(h) \/ WriteDelOk(h) \/ WritePutOk(h) \/ WriteFails(h)
    /\ UNCHANGED <<started, hist, clientVars>>

Return(h) == Respond(h) /\ UNCHANGED <<started, hist, clientVars>>

Next ==
    \/ Tick(TickMs)
    \/ Start(1) \/ Read(1) \/ Body(1) \/ Write(1) \/ Return(1)

Spec == Init /\ [][Next]_vars

(***************************************************************************)
(* Two requests in progress at once                                        *)
(***************************************************************************)
\* Every handler serves one request, in any interleaving with the other, and
\* the clock advances by a whole TTL at a time.
\* The most records of such a run.
ConcPhotos == 2

ConcBody == [imageUrl |-> S_url, title |-> S_ab]
ConcUpdate == [isFavorite |-> TRUE]

InitConc ==
    \E n \in 0..(ConcPhotos - 1) : InitWith([i \in 1..n |-> ConcBody])

StartConc(h) ==
    /\ Receive(Cardinality(Handlers))
    /\ UNCHANGED <<hist, clientVars>>
    /\ \/ /\ nextId + PendingCreates <= ConcPhotos
          /\ StartPost(h, ConcBody)
       \/ \E id \in 1..ConcPhotos :
            \/ StartPut(h, id, ConcUpdate)
            \/ StartDelete(h, id)

BodyConc(h) ==
    /\ \/ GetByIdBody(h) \/ UpdateBody(h) \/ DeleteBody(h)
       \/ CreateBody(h, 0)
    /\ UNCHANGED <<started, hist, clientVars>>

NextConc ==
    \/ Tick(CACHE_TTL)
    \/ \E h \in Handlers :
          StartConc(h) \/ Read(h) \/ BodyConc(h) \/ Write(h)

SpecConc == InitConc /\ [][NextConc]_vars

(***************************************************************************)
(* POST and PUT with arbitrary bodies, one request at a time               *)
(***************************************************************************)
\* The requests of such a run.
ValidRequests == 2

\* A string of n characters.
Repeat(c, n) == [i \in 1..n |-> c]

\* Bodies at and beyond every limit of the schemas.
PostBodies ==
    { [imageUrl |-> S_url, title |-> S_ab, description |-> S_sea,
       tags |-> <<S_b>>, frameColor |-> "pink"],
      [imageUrl |-> S_url, title |-> Repeat("a", MaxTitleLen)],
      [imageUrl |-> S_url, title |-> Repeat("a", MaxTitleLen + 1)],
      [imageUrl |-> S_url, title |-> EmptyStr],
      [imageUrl |-> S_url, title |-> S_ab,
       description |-> Repeat("a", MaxDescriptionLen + 1)],
      [imageUrl |-> S_url, title |-> S_ab,
       tags |-> [i \in 1..(MaxTags + 1) |-> S_b]],
      [imageUrl |-> S_url, title |-> S_ab,
       tags |-> <<Repeat("a", MaxTagLen + 1)>>],
      [imageUrl |-> S_url, title |-> S_ab, frameColor |-> "red"],
      [title |-> S_ab] }

PutBodies ==
    { [title |-> S_B, tags |-> [i \in 1..MaxTags |-> S_b]],
      [description |-> Null, frameColor |-> "mint"],
      [title |-> EmptyStr],
      [title |-> Repeat("a", MaxTitleLen + 1)],
      [description |-> Repeat("a", MaxDescriptionLen + 1)],
      [tags |-> [i \in 1..(MaxTags + 1) |-> S_b]],
      [tags |-> <<Repeat("a", MaxTagLen + 1)>>],
      [frameColor |-> "red"] }

InitValid == \E n \in 0..1 : InitWith([i \in 1..n |-> ConcBody])

StartValid(h) ==
    /\ Receive(ValidRequests)
    /\ UNCHANGED <<hist, clientVars>>
    /\ \/ \E body \in PostBodies : StartPost(h, body)
       \/ \E id \in 1..2, body \in PutBodies : StartPut(h, id, body)

BodyValid(h) ==
    /\ GetByIdBody(h) \/ UpdateBody(h) \/ CreateBody(h, 0)
    /\ UNCHANGED <<started, hist, clientVars>>

NextValid ==
    \/ Tick(CACHE_TTL)
    \/ StartValid(1) \/ Read(1) \/ BodyValid(1) \/ Write(1) \/ Return(1)

SpecValid == InitValid /\ [][NextValid]_vars

(***************************************************************************)
(* getAllPhotos applied once to a stored collection                        *)
(***************************************************************************)
\* The most records of the stored collection.
QueryPhotos == 3

S_sun == <<"s", "u", "n">>
S_SUN == <<"S", "U", "n">>
S_s   == <<"s">>

QueryBodies ==
    { [imageUrl |-> S_url, title |-> S_Sun, tags |-> <<S_b, S_s>>,
       dateTaken |-> D_Jan05],
      [imageUrl |-> S_url, title |-> S_ab, description |-> S_Sun,
       tags |-> <<S_w>>, isFavorite |-> TRUE, dateTaken |-> D_Dec31],
      [imageUrl |-> S_url, title |-> S_B, description |-> EmptyStr,
       tags |-> <<S_SUN>>, dateTaken |-> EmptyStr],
      [imageUrl |-> S_url, title |-> S_sea, isFavorite |-> TRUE] }

QueryFilters ==
    { EmptyObj,
      [search |-> S_sun], [search |-> S_SUN], [search |-> EmptyStr],
      [tags |-> <<S_b>>], [tags |-> <<S_w, S_b>>], [tags |-> <<>>],
      [favoritesOnly |-> TRUE], [favoritesOnly |-> FALSE],
      [dateRange |-> EmptyObj],
      [dateRange |-> [from |-> D_Jan05]],
      [dateRange |-> [to |-> D_Jan05]],
      [dateRange |-> [from |-> D_Dec31, to |-> D_Jan05]],
      [dateRange |-> [from |-> D_Jan10, to |-> EmptyStr]],
      [search |-> S_s, tags |-> <<S_w, S_s>>, favoritesOnly |-> TRUE,
       dateRange |-> [to |-> D_Jan05]] }

InitQuery ==
    \E n \in 0..QueryPhotos : \E bodies \in [1..n -> QueryBodies] :
        InitWith(bodies)

StartQuery(h) ==
    /\ Receive(1)
    /\ UNCHANGED <<hist, clientVars>>
    /\ \E filters \in QueryFilters, sort \in SortOptions :
         StartGetAllPhotos(h, filters, sort)

BodyQuery(h) == GetAllBody(h) /\ UNCHANGED <<started, hist, clientVars>>

NextQuery == StartQuery(1) \/ Read(1) \/ BodyQuery(1)

SpecQuery == InitQuery /\ [][NextQuery]_vars

(***************************************************************************)
(* The cache observed: two requests, another process, and the history      *)
(***************************************************************************)
\* What a read that begins now finds.
BeginInfo ==
    [cached |-> memoryCache # 0,
     filledAt |-> hist.fill.at,
     stamp |-> hist.fill.stamp,
     next |-> hist.write.called /\ ~hist.nextTaken,
     afterFail |-> hist.write.failed]

\* Handler h's read has resolved in this step: `how` is "hit", "empty" (no
\* blob), "fetched" or "failed"; `at` is when it began and `info` what it
\* found then.  A read that answers from the backend fills the cache.
HistResolved(h, hs, how, info, at) ==
    [hs EXCEPT
       !.read = [how |-> how, at |-> at, ret |-> heap'[req'[h].photos],
                 hadCache |-> memoryCache # 0, cached |-> CacheContents,
                 exists |-> blob.exists, doc |-> blob.doc,
                 ext |-> hs.fill.ext, begin |-> info],
       !.begin[h] = NoBegin,
       !.fill = IF how \in {"empty", "fetched"}
                THEN [at |-> now, stamp |-> at, ext |-> FALSE]
                ELSE @,
       !.snap = IF /\ req[h].kind = "createPhoto"
                   /\ how \in {"empty", "fetched"}
                   /\ ~hs.write.called
                THEN @ \cup {h} ELSE @]

\* Handler h has called readPhotos in this step.
HistBegin(h) ==
    LET info == BeginInfo
        hs == [hist EXCEPT !.begin[h] = info,
                           !.nextTaken = @ \/ hist.write.called]
    IN IF req'[h].pc = "body"
       THEN HistResolved(h, hs, "hit", info, now)
       ELSE hs

\* Handler h has called writePhotos in this step.
HistWrite(h) ==
    [hist EXCEPT
       !.write = [called |-> TRUE, photos |-> heap'[memoryCache'],
                  before |-> blob.doc, at |-> now, by |-> h,
                  failed |-> FALSE],
       !.fill = [at |-> now, stamp |-> now, ext |-> FALSE],
       !.begin = [g \in Handlers |->
                    [@[g] EXCEPT !.next = FALSE, !.afterFail = FALSE]],
       !.read = NoRead,
       !.nextTaken = FALSE]

ReadFailedCache(h) ==
    hist' = HistResolved(h, hist, "failed", hist.begin[h], req[h].now0)

StartCache(h) ==
    /\ Receive(Cardinality(Handlers))
    /\ \/ /\ nextId + PendingCreates <= ConcPhotos
          /\ StartPost(h, ConcBody)
       \/ \E id \in 1..ConcPhotos :
            \/ StartPut(h, id, ConcUpdate)
            \/ StartGet(h, id)
    /\ hist' = HistBegin(h)
    /\ UNCHANGED clientVars

ReadCache(h) ==
    /\ \/ ReadListFails(h) /\ ReadFailedCache(h)
       \/ /\ ReadListEmpty(h)
          /\ hist' = HistResolved(h, hist, "empty", hist.begin[h],
                                  req[h].now0)
       \/ ReadListFound(h) /\ UNCHANGED hist
       \/ /\ ReadFetchOk(h)
          /\ hist' = HistResolved(h, hist, "fetched", hist.begin[h],
                                  req[h].now0)
       \/ ReadFetchFails(h) /\ ReadFailedCache(h)
    /\ UNCHANGED <<started, clientVars>>

BodyCache(h) ==
    /\ \/ /\ GetByIdBody(h)
          /\ hist' = IF req'[h].pc = "done" THEN hist ELSE HistBegin(h)
       \/ /\ UpdateBody(h)
          /\ hist' = IF req'[h].pc = "done" THEN hist ELSE HistWrite(h)
       \/ /\ CreateBody(h, 0)
          /\ hist' = HistWrite(h)
    /\ UNCHANGED <<started, clientVars>>

WriteCache(h) ==
    /\ \/ (WriteListOk(h) \/ WriteDelOk(h)) /\ UNCHANGED hist
       \/ WritePutOk(h) /\ hist' = [hist EXCEPT !.puts = Append(@, h)]
       \/ /\ WriteFails(h)
          /\ hist' = IF hist.write.by = h
                     THEN [hist EXCEPT !.write.failed = TRUE]
                     ELSE hist
    /\ UNCHANGED <<started, clientVars>>

\* Another server process deletes the last record of the document and writes
\* the document back (its deletePhoto and writePhotos), once.
ExternalWrite ==
    /\ blob.exists
    /\ Len(blob.doc) > 0
    /\ 0 \notin Elems(hist.puts)
    /\ blob' = [exists |-> TRUE,
                doc |-> JSONRoundTrip(DeleteAt(blob.doc, Len(blob.doc) - 1))]
    /\ hist' = [hist EXCEPT !.puts = Append(@, 0), !.fill.ext = TRUE]
    /\ UNCHANGED <<heap, memoryCache, lastFetchTime, now, nextId, req, started,
                   clientVars>>

NextCache ==
    \/ Tick(CACHE_TTL)
    \/ ExternalWrite
    \/ \E h \in Handlers :
         StartCache(h) \/ ReadCache(h) \/ BodyCache(h) \/ WriteCache(h)

SpecCache == InitConc /\ [][NextCache]_vars

(***************************************************************************)
(* usePolling (src/hooks/usePolling.ts)                                    *)
(***************************************************************************)
\* The refs of the hook taken together, so that the callbacks of the hook
\* are functions from refs to refs.
Refs0 == [isPolling |-> isPollingRef, inFlight |-> inFlight,
          timer |-> intervalRef, called |-> called]

\* The callbacks, interval lengths and onError handlers a render may pass;
\* onError 0 is no handler.
Callbacks == {1, 2}
Intervals == {DefaultInterval, 2 * DefaultInterval}
OnErrors == {0, 1}
RenderOptions ==
    [callback : Callbacks, interval : Intervals, enabled : BOOLEAN,
     immediate : BOOLEAN, onError : OnErrors]

\* An executeCallback that does not raise isPollingRef.
ExecuteCallbackNoFlag(r, by, onError) ==
    IF r.isPolling
    THEN [r EXCEPT !.called = [by |-> by, invoked |-> FALSE]]
    ELSE [r EXCEPT !.inFlight = Append(@, [by |-> by, onError |-> onError]),
                   !.called = [by |-> by, invoked |-> TRUE]]

ExecuteCallbackUnguarded(r, by, onError) ==
    [r EXCEPT !.isPolling = TRUE,
              !.inFlight = Append(@, [by |-> by, onError |-> onError]),
              !.called = [by |-> by, invoked |-> TRUE]]

\* executeCallback, called by `by`: the closure holds the onError of the
\* render that made it.
ExecuteCallback(r, by, onError) ==
    IF r.isPolling
    THEN [r EXCEPT !.called = [by |-> by, invoked |-> FALSE]]
    ELSE [r EXCEPT !.isPolling = TRUE,
                   !.inFlight = Append(@, [by |-> by, onError |-> onError]),
                   !.called = [by |-> by, invoked |-> TRUE]]

StartPollingNever(r, opts) == r

\* startPolling: setInterval(executeCallback, interval) unless a timer is set.
StartPolling(r, opts) ==
    IF r.timer.set THEN r
    ELSE [r EXCEPT !.timer = [set |-> TRUE, interval |-> opts.interval,
                              onError |-> opts.onError]]

\* stopPolling
StopPolling(r) == [r EXCEPT !.timer = NoTimer]

\* The body of the set-up effect, under the options of the render.
SetUp(r, opts) ==
    IF ~opts.enabled THEN StopPolling(r)
    ELSE StartPolling(IF opts.immediate
                      THEN ExecuteCallback(r, "immediate", opts.onError)
                      ELSE r,
                      opts)

\* Its clean-up, which exists when the effect ran with enabled.
CleanUp(r, opts) == IF opts.enabled THEN StopPolling(r) ELSE r

\* The dependencies of the set-up effect: enabled, immediate, startPolling
\* (interval, executeCallback), executeCallback (onError).
SetUpDeps(opts) ==
    <<opts.enabled, opts.immediate, opts.interval, opts.onError>>

\* The refs become r.
Assign(r) ==
    /\ isPollingRef' = r.isPolling
    /\ inFlight' = r.inFlight
    /\ intervalRef' = r.timer
    /\ called' = r.called

\* The component mounts: first render and its effects.
Mount ==
    /\ mounted = "no"
    /\ mounted' = "yes"
    /\ \E opts \in RenderOptions :
         /\ options' = opts
         /\ Assign(SetUp(Refs0, opts))
    /\ UNCHANGED <<hidden, settled, storeVars, mirrorVars>>

\* The component renders again with other options: savedCallback.current
\* follows the callback, and the set-up effect runs again (after the
\* clean-up of its last run) when one of its dependencies has changed.
Render ==
    /\ mounted = "yes"
    /\ \E opts \in RenderOptions :
         /\ opts # options
         /\ options' = opts
         /\ IF SetUpDeps(opts) # SetUpDeps(options)
            THEN Assign(SetUp(CleanUp(Refs0, options), opts))
            ELSE Assign(Refs0)
    /\ UNCHANGED <<mounted, hidden, settled, storeVars, mirrorVars>>

\* The component unmounts: the clean-ups run.
Unmount ==
    /\ mounted = "yes"
    /\ mounted' = "gone"
    /\ Assign(CleanUp(Refs0, options))
    /\ UNCHANGED <<options, hidden, settled, storeVars, mirrorVars>>

\* visibilitychange, the page now hidden.
Hide ==
    /\ ~hidden
    /\ hidden' = TRUE
    /\ Assign(IF mounted = "yes" THEN StopPolling(Refs0) ELSE Refs0)
    /\ UNCHANGED <<mounted, options, settled, storeVars, mirrorVars>>

\* visibilitychange, the page now visible.
Show ==
    /\ hidden
    /\ hidden' = FALSE
    /\ Assign(IF mounted = "yes" /\ options.enabled
              THEN StartPolling(ExecuteCallback(Refs0, "visible",
                                                options.onError),
                                options)
              ELSE Refs0)
    /\ UNCHANGED <<mounted, options, settled, storeVars, mirrorVars>>

\* The interval timer fires: the executeCallback it was set with runs.
TimerFires ==
    /\ intervalRef.set
    /\ Assign(ExecuteCallback(Refs0, "tick", intervalRef.onError))
    /\ UNCHANGED <<mounted, options, hidden, settled, storeVars, mirrorVars>>

\* The caller calls refresh().
Refresh ==
    /\ mounted = "yes"
    /\ Assign(ExecuteCallback(Refs0, "refresh", options.onError))
    /\ UNCHANGED <<mounted, options, hidden, settled, storeVars, mirrorVars>>

SettledKeepsFlag(r, i, how) ==
    [r EXCEPT !.inFlight = Splice1(@, i - 1)]

\* The i-th invocation in flight settles: catch (rejected only), finally.
Settled(r, i, how) ==
    [r EXCEPT !.inFlight = Splice1(@, i - 1), !.isPolling = FALSE]

\* The promise of the callback resolves.
Resolve ==
    /\ \E i \in DOMAIN inFlight :
         /\ Assign(Settled(Refs0, i, "resolved"))
         /\ settled' = [how |-> "resolved", onError |-> 0]
    /\ UNCHANGED <<mounted, options, hidden, storeVars, mirrorVars>>

\* The promise of the callback rejects: onError?.(error)
Reject ==
    /\ \E i \in DOMAIN inFlight :
         /\ Assign(Settled(Refs0, i, "rejected"))
         /\ settled' = [how |-> "rejected", onError |-> inFlight[i].onError]
    /\ UNCHANGED <<mounted, options, hidden, storeVars, mirrorVars>>

InitPolling ==
    /\ StoreInit(<<>>)
    /\ \E pageHidden \in BOOLEAN : PollStart(pageHidden)
    /\ MirrorIdle

NextPolling ==
    \/ Mount \/ Render \/ Unmount
    \/ Hide \/ Show
    \/ TimerFires \/ Refresh
    \/ Resolve \/ Reject

SpecPolling == InitPolling /\ [][NextPolling]_vars

(***************************************************************************)
(* usePhotos and the gallery store of the page                             *)
(***************************************************************************)
\* The page sends at most MaxCalls requests of its own accord; the re-fetch
\* after a failed update or delete comes on top.
MaxCalls == 3

\* The most records the backend holds while the page is open.
MirrorPhotos == 1

\* photoQuerySchema: page defaults to '1', limit to '50'.
DefaultPage == 1
DefaultLimit == 50

\* photos.slice((page - 1) * limit, (page - 1) * limit + limit)
Paginate(photos, page, limit) ==
    SubSeq(photos, (page - 1) * limit + 1,
           IF page * limit < Len(photos) THEN page * limit ELSE Len(photos))

\* Array.from(new Set(tags)): the first occurrence of every tag, in order.
UniqueTags(tags) ==
    LET first == {i \in DOMAIN tags : \A j \in 1..(i - 1) : tags[j] # tags[i]}
    IN [k \in 1..Cardinality(first) |->
          tags[CHOOSE i \in first : Cardinality({j \in first : j < i}) = k - 1]]

\* Array.prototype.sort() of strings: ascending by code units.
RECURSIVE SortTags(_)
SortTags(tags) ==
    IF tags = <<>> THEN <<>>
    ELSE LET least == CHOOSE t \in Elems(tags) :
                         \A u \in Elems(tags) : ~StrLess(u, t)
             i == CHOOSE j \in DOMAIN tags : tags[j] = least
         IN <<least>> \o SortTags(Splice1(tags, i - 1))

\* The tags of all records, one after another.
RECURSIVE TagsOf(_)
TagsOf(photos) ==
    IF photos = <<>> THEN <<>>
    ELSE Head(photos).tags \o TagsOf(Tail(photos))

\* getAllTags, as a function of the array readPhotos returned.
GetAllTags(photos) == SortTags(UniqueTags(TagsOf(photos)))

\* useGalleryStore: addPhoto, updatePhoto, deletePhoto, toggleFavorite on
\* photos.
StoreAddPhoto(m, photo) == <<photo>> \o m

StoreUpdatePhotoNoop(m, id, updates) == m

StoreUpdatePhoto(m, id, updates) ==
    [i \in DOMAIN m |-> IF m[i].id = id THEN Spread(m[i], updates) ELSE m[i]]

RECURSIVE StoreDeletePhoto(_, _)
StoreDeletePhoto(m, id) ==
    IF m = <<>> THEN <<>>
    ELSE IF Head(m).id = id THEN StoreDeletePhoto(Tail(m), id)
    ELSE <<Head(m)>> \o StoreDeletePhoto(Tail(m), id)

\* addPhoto of the store: allTags
StoreAddTags(tags, more) == UniqueTags(tags \o more)

StoreToggleFavorite(m, id) ==
    [i \in DOMAIN m |->
        IF m[i].id = id THEN [m[i] EXCEPT !.isFavorite = ~@] ELSE m[i]]

\* A request of photoApi on its way; `sort` is the sortOption of the render
\* whose callback sent it, `silent` the argument of the fetchPhotos that sent
\* it, `tags` the allTags of its response.
Call(op, id, data) ==
    [op |-> op, id |-> id, data |-> data, phase |-> "sent", result |-> <<>>,
     sort |-> sortOption, silent |-> FALSE, tags |-> <<>>]

\* The request of a fetchPhotos(silent) created with sortOption `sort`.
ListCall(silent, sort) ==
    [Call("list", 0, EmptyObj) EXCEPT !.silent = silent, !.sort = sort]

Send(c) == calls' = Append(calls, c)

MirrorUpdates == {[title |-> S_B]}

\* The body of the photos the page shows and adds.
MirrorBody == [imageUrl |-> S_url, title |-> S_ab, description |-> S_sea]

\* What the steps of the page and of its server leave alone.
PageFrame ==
    UNCHANGED <<heap, memoryCache, lastFetchTime, now, req, hist, pollVars>>

\* A call of the hook is made: nothing reaches the server in the same step.
CallFrame == PageFrame /\ UNCHANGED <<blob, nextId, sortOption>>

\* A mutating action is called: it shows no toast and leaves isLoading, error
\* and allTags as they are.
QuietCall == toast' = NoToast /\ UNCHANGED <<isLoading, error, allTags>>

\* fetchPhotos(silent) up to its await: setLoading(true) unless silent,
\* setError(null), and the request c, put behind the requests in cs.
BeginFetch(c, cs) ==
    /\ isLoading' = IF c.silent THEN isLoading ELSE TRUE
    /\ error' = NoError
    /\ calls' = Append(cs, c)

\* fetchPhotos(): on mount, on a change of filters or sort, on a call of the
\* page.
FetchPhotos ==
    /\ Receive(MaxCalls)
    /\ BeginFetch(ListCall(FALSE, sortOption), calls)
    /\ toast' = NoToast
    /\ UNCHANGED <<mirror, allTags>>
    /\ CallFrame

\* silentFetch(): the callback usePolling invokes.
SilentFetch ==
    /\ Receive(MaxCalls)
    /\ BeginFetch(ListCall(TRUE, sortOption), calls)
    /\ toast' = NoToast
    /\ UNCHANGED <<mirror, allTags>>
    /\ CallFrame

\* addPhoto(data): the request is sent; the store is left for the response.
AddPhoto ==
    /\ Receive(MaxCalls)
    /\ Send(Call("create", 0, MirrorBody))
    /\ UNCHANGED mirror
    /\ QuietCall
    /\ CallFrame

\* updatePhoto(id, data): updatePhotoInStore(id, data), then the request.
UpdatePhoto ==
    /\ Receive(MaxCalls)
    /\ \E id \in 1..MirrorPhotos, data \in MirrorUpdates :
         /\ mirror' = StoreUpdatePhoto(mirror, id, data)
         /\ Send(Call("update", id, data))
    /\ QuietCall
    /\ CallFrame

\* deletePhoto(id): deletePhotoFromStore(id), then the request.
DeletePhoto ==
    /\ Receive(MaxCalls)
    /\ \E id \in 1..MirrorPhotos :
         /\ mirror' = StoreDeletePhoto(mirror, id)
         /\ Send(Call("delete", id, EmptyObj))
    /\ QuietCall
    /\ CallFrame

\* toggleFavorite(photo), photo being one of the photos on the page.
ToggleFavorite ==
    /\ Receive(MaxCalls)
    /\ \E photo \in Elems(mirror) :
         /\ mirror' = StoreToggleFavorite(mirror, photo.id)
         /\ Send(Call("toggle", photo.id,
                      [isFavorite |-> ~photo.isFavorite]))
    /\ QuietCall
    /\ CallFrame

\* The server answers request i (one request at a time, its cache agreeing
\* with the backend): the document changes and the response is on its way.
Answer(i, doc, result, tags) ==
    /\ blob' = [exists |-> blob.exists \/ doc # blob.doc, doc |-> doc]
    /\ calls' = [calls EXCEPT ![i].phase = "ok", ![i].result = result,
                              ![i].tags = tags]

\* GET /api/photos of a request without page and limit: the page of the
\* sorted list and the tags of all records.
ListResponse(doc, filters, sort) ==
    Paginate(GetAllPhotos(doc, filters, sort), DefaultPage, DefaultLimit)

Serve ==
    \E i \in DOMAIN calls :
       /\ calls[i].phase = "sent"
       /\ LET c == calls[i]
              index == FindIndex(blob.doc, c.id)
              newPhoto == NewPhoto(CreateData(c.data), nextId, now, 0,
                                   blob.doc)
              updated == UpdateAt(blob.doc, index, UpdateData(c.data))
          IN CASE c.op = "list" ->
                    /\ Answer(i, blob.doc,
                              JSONRoundTrip(ListResponse(blob.doc, EmptyObj,
                                                         c.sort)),
                              GetAllTags(blob.doc))
                    /\ UNCHANGED nextId
               [] c.op = "create" ->
                    /\ Len(blob.doc) < MirrorPhotos
                    /\ Answer(i, JSONRoundTrip(Append(blob.doc, newPhoto)),
                              JSONRoundTrip(<<newPhoto>>), <<>>)
                    /\ nextId' = nextId + 1
               [] c.op \in {"update", "toggle"} ->
                    /\ ~Missing(index)
                    /\ Answer(i, JSONRoundTrip(updated),
                              JSONRoundTrip(<<updated[index + 1]>>), <<>>)
                    /\ UNCHANGED nextId
               [] c.op = "delete" ->
                    /\ ~Missing(index)
                    /\ Answer(i, JSONRoundTrip(DeleteAt(blob.doc, index)),
                              <<>>, <<>>)
                    /\ UNCHANGED nextId
       /\ UNCHANGED <<mirror, sortOption, isLoading, error, allTags, toast,
                      started>>
       /\ PageFrame

\* Request i fails: the network, or a response that is not OK (404 for an id
\* the server does not hold, 500, 401).
Fail ==
    /\ \E i \in DOMAIN calls :
         /\ calls[i].phase = "sent"
         /\ calls' = [calls EXCEPT ![i].phase = "failed"]
    /\ UNCHANGED <<mirror, sortOption, isLoading, error, allTags, toast, blob,
                   nextId, started>>
    /\ PageFrame

\* The messages of the toasts and of the error of the store.
FetchFailed == "Failed to fetch photos"
ToastAdded == "Photo added successfully!"
ToastUpdated == "Photo updated!"
ToastDeleted == "Photo deleted"
ToastFavorite == "Added to favorites!"
AddFailed == "Failed to add photo"
UpdateFailed == "Failed to update photo"
DeleteFailed == "Failed to delete photo"
ToggleFailed == "Failed to update favorite"

\* The code of fetchPhotos after its await, c being its request and rest the
\* other requests on their way.
FetchSettled(c, rest) ==
    /\ IF c.phase = "ok"
       THEN /\ mirror' = c.result
            /\ allTags' = c.tags
            /\ error' = NoError
            /\ toast' = NoToast
       ELSE /\ error' = FetchFailed
            /\ toast' = IF c.silent THEN NoToast ELSE FetchFailed
            /\ UNCHANGED <<mirror, allTags>>
    /\ isLoading' = IF c.silent THEN isLoading ELSE FALSE
    /\ calls' = rest

\* The catch of updatePhoto and deletePhoto, c being their request:
\* fetchPhotos() of the render that made the call, then the toast.
Refetch(message, c, rest) ==
    /\ BeginFetch(ListCall(FALSE, c.sort), rest)
    /\ toast' = message
    /\ UNCHANGED <<mirror, allTags>>

\* The code of addPhoto, updatePhoto, deletePhoto and toggleFavorite after
\* their await.
MutationSettled(c, rest) ==
    CASE c.phase = "ok" /\ c.op = "create" ->
           /\ mirror' = StoreAddPhoto(mirror, c.result[1])
           /\ allTags' = StoreAddTags(allTags, c.result[1].tags)
           /\ toast' = ToastAdded
           /\ calls' = rest
           /\ UNCHANGED <<isLoading, error>>
      [] c.phase = "ok" /\ c.op = "update" ->
           /\ mirror' = StoreUpdatePhoto(mirror, c.id, c.result[1])
           /\ toast' = ToastUpdated
           /\ calls' = rest
           /\ UNCHANGED <<isLoading, error, allTags>>
      [] c.phase = "ok" /\ c.op = "delete" ->
           /\ toast' = ToastDeleted
           /\ calls' = rest
           /\ UNCHANGED <<mirror, isLoading, error, allTags>>
      [] c.phase = "ok" /\ c.op = "toggle" ->
           /\ toast' = IF c.data.isFavorite THEN ToastFavorite ELSE NoToast
           /\ calls' = rest
           /\ UNCHANGED <<mirror, isLoading, error, allTags>>
      [] c.phase = "failed" /\ c.op = "create" ->
           /\ toast' = AddFailed
           /\ calls' = rest
           /\ UNCHANGED <<mirror, isLoading, error, allTags>>
      [] c.phase = "failed" /\ c.op = "update" -> Refetch(UpdateFailed, c, rest)
      [] c.phase = "failed" /\ c.op = "delete" -> Refetch(DeleteFailed, c, rest)
      [] c.phase = "failed" /\ c.op = "toggle" ->
           /\ mirror' = StoreToggleFavorite(mirror, c.id)
           /\ toast' = ToggleFailed
           /\ calls' = rest
           /\ UNCHANGED <<isLoading, error, allTags>>

\* The response of request i reaches the hook.
Settle ==
    /\ \E i \in DOMAIN calls :
         /\ calls[i].phase # "sent"
         /\ IF calls[i].op = "list"
            THEN FetchSettled(calls[i], Splice1(calls, i - 1))
            ELSE MutationSettled(calls[i], Splice1(calls, i - 1))
    /\ UNCHANGED <<blob, nextId, started, sortOption>>
    /\ PageFrame

InitMirror ==
    /\ \E n \in 0..MirrorPhotos : StoreInit([i \in 1..n |-> MirrorBody])
    /\ PollStart(FALSE)
    /\ MirrorIdle

NextMirror ==
    \/ FetchPhotos \/ AddPhoto \/ UpdatePhoto \/ DeletePhoto \/ ToggleFavorite
    \/ Serve \/ Fail \/ Settle

\* The page with enablePolling: false.
SpecMirror == InitMirror /\ [][NextMirror]_vars

(***************************************************************************)
(* usePhotos fetching: fetchPhotos of the page and silentFetch of polling  *)
(***************************************************************************)
\* The sizes of the collection the backend holds while the page fetches.
FetchSizes == {0, 1, 2, DefaultLimit + 1}

\* The records carry tags: "b" on every record, "sea" on every second one.
FetchBody(i) ==
    [imageUrl |-> S_url, title |-> S_ab,
     tags |-> IF i % 2 = 0 THEN <<S_sea, S_b>> ELSE <<S_b>>]

InitFetch ==
    /\ \E n \in FetchSizes : StoreInit([i \in 1..n |-> FetchBody(i)])
    /\ PollStart(FALSE)
    /\ MirrorIdle

\* setSortOption(sort): the store takes the option, the page renders, and the
\* effect on fetchPhotos, which depends on sortOption, calls fetchPhotos().
PageSorts == {"dateAdded-desc", "dateAdded-asc"}

SetSortOption ==
    /\ Receive(MaxCalls)
    /\ \E sort \in PageSorts \ {sortOption} :
         /\ sortOption' = sort
         /\ BeginFetch(ListCall(FALSE, sort), calls)
    /\ toast' = NoToast
    /\ UNCHANGED <<mirror, allTags, blob, nextId>>
    /\ PageFrame

NextFetch ==
    \/ FetchPhotos \/ SilentFetch \/ SetSortOption \/ DeletePhoto
    \/ Serve \/ Fail \/ Settle

SpecFetch == InitFetch /\ [][NextFetch]_vars

(***************************************************************************)
(* Properties                                                              *)
(***************************************************************************)
\* Handler h takes a step.
HStep(h) == req'[h].pc # req[h].pc \/ req'[h].kind # req[h].kind

\* Handler h runs the body of `kind` and goes on to write.
Mutates(h, kind) == InBody(h, kind) /\ req'[h].pc = "w_list"

\* Field k reads the same in records a and b.
SameField(a, b, k) ==
    IF k \in OptionalStringKeys THEN Get(a, k) = Get(b, k)
    ELSE HasKey(a, k) /\ HasKey(b, k) /\ a[k] = b[k]

Positions(arr) == {arr[i].position : i \in DOMAIN arr}
Dense(arr) == Positions(arr) = 0..(Len(arr) - 1)
UniqueIds(arr) ==
    \A i, j \in DOMAIN arr : arr[i].id = arr[j].id => i = j
PositionOf(arr, id) == arr[FindIndex(arr, id) + 1].position
Listed(orderedIds, id) == \E k \in DOMAIN orderedIds : orderedIds[k] = id

\* C1: a PUT /photos/{id} whose body passes validation leaves every field
\* that is absent from the body, and id and dateAdded in any case, with the
\* value the stored record had before the update.
C1_PutChangesOnlyBodyFields ==
    [][\A h \in Handlers :
        (Mutates(h, "updatePhoto") /\ req[h].http = "PUT") =>
            LET i == FindIndex(heap[req[h].photos], req[h].id) + 1
                before == heap[req[h].photos][i]
                after == heap'[req'[h].photos][i]
            IN /\ \A k \in (DOMAIN before \cup DOMAIN after)
                              \ DOMAIN req[h].body :
                      SameField(before, after, k)
               /\ after.id = before.id
               /\ after.dateAdded = before.dateAdded]_vars

\* C2: in every state the positions of the stored records, cached and
\* persisted, are exactly 0..N-1, each used once, N being their number.
C2_PositionsDense == Dense(CacheContents) /\ Dense(blob.doc)

\* C3: in every state no two records of the stored collection, cached or
\* persisted, have the same id.
C3_IdsUnique == UniqueIds(CacheContents) /\ UniqueIds(blob.doc)

\* C4: a deletePhoto that removes a record from a collection with unique ids
\* and positions 0..N-1 leaves the survivors with positions 0..N-2 and in the
\* relative order of their positions before the delete.
C4_DeleteKeepsOrder ==
    [][\A h \in Handlers :
        (/\ Mutates(h, "deletePhoto")
         /\ UniqueIds(heap[req[h].photos])
         /\ Dense(heap[req[h].photos])) =>
            LET before == heap[req[h].photos]
                after == heap'[req'[h].photos]
            IN /\ Dense(after)
               /\ \A i, j \in DOMAIN after :
                     PositionOf(after, after[i].id)
                         < PositionOf(after, after[j].id)
                     <=> PositionOf(before, after[i].id)
                             < PositionOf(before, after[j].id)]_vars

\* C6: reorderPhotos(orderedIds) gives every listed record the position
\* equal to its index in orderedIds, appends the records not listed after the
\* listed ones in their prior relative order with positions continuing the
\* sequence, and returns the same records as before.
C6_ReorderAsListed ==
    [][\A h \in Handlers :
        Mutates(h, "reorderPhotos") =>
            LET before == heap[req[h].photos]
                orderedIds == req[h].arg
                after == req'[h].ret.photos
            IN /\ \A k \in DOMAIN orderedIds :
                     MapHas(before, orderedIds[k]) =>
                        \E i \in DOMAIN after :
                            /\ after[i].id = orderedIds[k]
                            /\ after[i].position = k - 1
               /\ \A i \in DOMAIN after :
                     ~Listed(orderedIds, after[i].id) =>
                        /\ \A j \in DOMAIN after :
                              Listed(orderedIds, after[j].id) =>
                                 /\ j < i
                                 /\ after[j].position < after[i].position
                        /\ i > 1 => after[i].position
                                        = after[i - 1].position + 1
                        /\ \A j \in DOMAIN after :
                              (j < i /\ ~Listed(orderedIds, after[j].id)) =>
                                 FindIndex(before, after[j].id)
                                     < FindIndex(before, after[i].id)
               /\ Len(after) = Len(before)
               /\ \A i \in DOMAIN after : \E j \in DOMAIN before :
                     after[i] = [before[j] EXCEPT
                                    !.position = after[i].position]
               /\ \A j \in DOMAIN before : MapHas(after, before[j].id)]_vars

\* The record a createPhoto step of handler h returns.
Created(h) == req'[h].ret.photos[1]

\* What C5 says of one createPhoto step of handler h.
CreateAppends(h) ==
    /\ Created(h).position = Len(CacheContents)
    /\ HasKey(Created(h), "dateAdded")
    /\ Created(h).dateAdded = ToISOString(now)
    /\ CacheContents' = Append(CacheContents, Created(h))

\* C5 as the specification states it: every createPhoto, overlapping another
\* call or not, returns a record whose position is the number of records in
\* the collection just before, with dateAdded set, and appends it.
C5_EveryCreateAppends ==
    [][\A h \in Handlers : Mutates(h, "createPhoto") => CreateAppends(h)]_vars

\* C5: a createPhoto that has not overlapped another call returns a record
\* whose position is the number of records in the collection just before,
\* with dateAdded set, and appends it to the collection.
C5_CreateAppends ==
    [][\A h \in Handlers :
        (Mutates(h, "createPhoto") /\ ~req[h].overlapped) =>
            CreateAppends(h)]_vars

\* A create that overlapped nothing has been given position 1.
C5_Witness ==
    \E h \in Handlers :
        /\ req[h].kind = "createPhoto"
        /\ req[h].pc = "w_list"
        /\ ~req[h].overlapped
        /\ req[h].ret.photos[1].position = 1
        /\ Len(CacheContents) = 2

\* Handler h is inside getPhotoById, updatePhoto or deletePhoto and its id is
\* not in the collection: not in the array it works on once it has one, in
\* neither the cached nor the persisted collection before that.
LookupKinds == {"getPhotoById", "updatePhoto", "deletePhoto"}
NotInCollection(h) ==
    /\ req[h].kind \in LookupKinds
    /\ IF req[h].pc = "body" THEN ~MapHas(heap[req[h].photos], req[h].id)
       ELSE /\ req[h].pc \in {"r_list", "r_fetch"}
            /\ ~MapHas(CacheContents, req[h].id)
            /\ ~MapHas(blob.doc, req[h].id)

\* The step of handler h that ends such a call returns not-found.
ReturnsNotFound(h) ==
    req[h].pc = "body" =>
        /\ req'[h].pc = "done"
        /\ req'[h].ret = IF req[h].kind = "deletePhoto" THEN BoolRet(FALSE)
                         ELSE NullRet

\* C7 as the specification states it: a call with an id not in the
\* collection returns not-found, starts no backend write, and no step of it
\* changes the persisted or the cached collection.
C7_NotFoundChangesNothing ==
    [][\A h \in Handlers :
        (NotInCollection(h) /\ HStep(h)) =>
            /\ ReturnsNotFound(h)
            /\ req'[h].pc \notin {"w_list", "w_del", "w_put"}
            /\ blob' = blob
            /\ memoryCache # 0 =>
                  (memoryCache' # 0 /\ CacheContents' = CacheContents)]_vars

\* C7: a call with an id not in the collection returns not-found, starts no
\* backend write and leaves the persisted collection unchanged; the cached
\* collection is unchanged or, the read having missed the cache, replaced by
\* the persisted collection.
C7_NotFoundWritesNothing ==
    [][\A h \in Handlers :
        (NotInCollection(h) /\ HStep(h)) =>
            /\ ReturnsNotFound(h)
            /\ req'[h].pc \notin {"w_list", "w_del", "w_put"}
            /\ blob' = blob
            /\ memoryCache # 0 =>
                  /\ memoryCache' # 0
                  /\ \/ CacheContents' = CacheContents
                     \/ CacheContents' = blob.doc]_vars

\* deletePhoto has returned false for a record deleted since the handler's
\* existence check, and the collections hold no such id.
C7_Witness ==
    \E h \in Handlers :
        /\ req[h].pc = "done"
        /\ req[h].kind = "deletePhoto"
        /\ req[h].ret = BoolRet(FALSE)
        /\ memoryCache # 0
        /\ ~MapHas(CacheContents, req[h].id)
        /\ ~MapHas(blob.doc, req[h].id)

\* C8: a PUT or DELETE whose store call found no record with the id, the id
\* being in neither the cached nor the persisted collection, is answered 404
\* with success false.
C8_MissingIdAnswered404 ==
    \A h \in Handlers :
        (/\ req[h].pc = "done"
         /\ req[h].http \in {"PUT", "DELETE"}
         /\ req[h].ret.tag \in {"null", "false"}
         /\ ~MapHas(CacheContents, req[h].id)
         /\ ~MapHas(blob.doc, req[h].id)) =>
            (req[h].status = 404 /\ ~req[h].success)

\* Handler h has returned from getAllPhotos.
Listed_Done(h) == req[h].pc = "done" /\ req[h].kind = "getAllPhotos"

\* q occurs in s, letter case aside.
ContainsNoCase(s, q) ==
    \E i \in 0..(Len(s) - Len(q)) :
        \A k \in 1..Len(q) : LowerChar(s[i + k]) = LowerChar(q[k])

HasText(o, k) == HasKey(o, k) /\ o[k] \notin {Undefined, Null, EmptyStr}

SearchMatches(p, q) ==
    \/ ContainsNoCase(p.title, q)
    \/ (HasText(p, "description") /\ ContainsNoCase(p.description, q))
    \/ \E t \in Elems(p.tags) : ContainsNoCase(t, q)

\* dateTaken of p is a day within the bounds the range sets, both inclusive.
WithinRange(p, range) ==
    /\ HasText(p, "dateTaken")
    /\ HasText(range, "from") =>
          DateGetTime(p.dateTaken) >= DateGetTime(range.from)
    /\ HasText(range, "to") =>
          DateGetTime(p.dateTaken) <= DateGetTime(range.to)

\* Record p satisfies every active filter.
Satisfies(p, filters) ==
    /\ HasText(filters, "search") => SearchMatches(p, filters.search)
    /\ (HasKey(filters, "tags") /\ filters.tags # <<>>) =>
          Elems(p.tags) \cap Elems(filters.tags) # {}
    /\ (HasKey(filters, "favoritesOnly") /\ filters.favoritesOnly) =>
          p.isFavorite
    /\ (HasKey(filters, "dateRange")
        /\ (HasText(filters.dateRange, "from")
            \/ HasText(filters.dateRange, "to"))) =>
          WithinRange(p, filters.dateRange)

C10_MissingDateTakenLast ==
    \A h \in Handlers :
        (Listed_Done(h) /\ req[h].sort \in {"dateTaken-desc", "dateTaken-asc"})
        => LET result == req[h].ret.photos
           IN \A i, j \in DOMAIN result :
                 i < j =>
                    /\ HasText(result[j], "dateTaken") =>
                          HasText(result[i], "dateTaken")
                    /\ (HasText(result[i], "dateTaken")
                        /\ HasText(result[j], "dateTaken")) =>
                          IF req[h].sort = "dateTaken-desc"
                          THEN DateGetTime(result[i].dateTaken)
                                  >= DateGetTime(result[j].dateTaken)
                          ELSE DateGetTime(result[i].dateTaken)
                                  <= DateGetTime(result[j].dateTaken)

\* A collection stored with two records lacking dateTaken ahead of one that
\* has it has been listed by dateTaken-asc.
C10_Witness ==
    \E h \in Handlers :
        /\ Listed_Done(h)
        /\ req[h].sort = "dateTaken-asc"
        /\ Len(req[h].ret.photos) = 3
        /\ ~HasText(blob.doc[1], "dateTaken")
        /\ ~HasText(blob.doc[2], "dateTaken")
        /\ HasText(blob.doc[3], "dateTaken")
        /\ req[h].ret.photos[1].id = 3


(***************************************************************************)
(* The read cache (SpecCache)                                              *)
(***************************************************************************)
\* A read has resolved since the last call of writePhotos.
ReadDone == hist.read.how # "none"

\* C11: read-your-writes.  The next read the process begins after a call
\* writePhotos(c), with no other write in between, returns c, whether or not
\* the backend write has completed or succeeded.  Stated here for the reads
\* that begin less than CACHE_TTL after the call, the case the claim is
\* surest of.
C11_NextReadReturnsWritten ==
    (ReadDone /\ hist.read.begin.next
       /\ hist.read.at - hist.write.at < CACHE_TTL)
    => hist.read.ret = hist.write.photos


\* What the last read did, given whether the cache was young when it began:
\* a young cache is returned as it is, without asking the backend; otherwise
\* the backend is asked and, when it answers, its document is returned.
ReadAsCached(young) ==
    /\ young => /\ hist.read.how = "hit"
                /\ hist.read.ret = hist.read.cached
    /\ ~young => /\ hist.read.how # "hit"
                 /\ hist.read.how = "fetched" =>
                      hist.read.exists /\ hist.read.ret = hist.read.doc
                 /\ hist.read.how = "empty" =>
                      ~hist.read.exists /\ hist.read.ret = <<>>

\* C12 as stated: a read issued less than CACHE_TTL after the cache was last
\* filled or written returns the cached collection without contacting the
\* backend; a read issued CACHE_TTL or more after it contacts the backend
\* and returns the backend's document when the backend answers.
C12_YoungSinceLastFill ==
    ReadDone =>
      ReadAsCached(hist.read.begin.cached
                   /\ hist.read.at - hist.read.begin.filledAt < CACHE_TTL)

\* C12, amended: the age of the cache is counted from the last call of
\* writePhotos or from the moment the read that last filled the cache began,
\* whichever assigned the cache last.
C12_YoungSinceStamp ==
    ReadDone =>
      ReadAsCached(hist.read.begin.cached
                   /\ hist.read.at - hist.read.begin.stamp < CACHE_TTL)

\* A read answered from the cache after another process has rewritten the
\* document: it returns the cached collection, which the backend no longer
\* holds.
C12_Witness ==
    /\ hist.read.how = "hit"
    /\ hist.read.ext
    /\ hist.read.ret = hist.read.cached
    /\ hist.read.ret # hist.read.doc


\* C13 as stated: on a cold start (no persisted document) a read returns an
\* empty collection, and a read whose backend call fails returns an empty
\* collection.
C13_FailedReadReturnsEmpty ==
    (ReadDone /\ hist.read.how \in {"empty", "failed"}) => hist.read.ret = <<>>

\* C13, amended: a read whose backend call fails returns the cached
\* collection when there is one, however old, and an empty collection
\* otherwise.
C13_FailedReadReturnsCache ==
    /\ (ReadDone /\ hist.read.how = "empty") => hist.read.ret = <<>>
    /\ (ReadDone /\ hist.read.how = "failed") =>
          hist.read.ret = IF hist.read.hadCache THEN hist.read.cached
                          ELSE <<>>

\* A read has failed while the process held a cached collection with records
\* in it, and has returned that collection.
C13_Witness ==
    /\ hist.read.how = "failed"
    /\ hist.read.hadCache
    /\ hist.read.ret = hist.read.cached
    /\ hist.read.ret # <<>>


\* C14: when the backend write of a mutation has failed, every read the
\* process begins afterwards, at any later time and until the next write,
\* returns the collection that was passed to the failed write.
C14_FailedWriteStaysCached ==
    (ReadDone /\ hist.read.begin.afterFail)
    => hist.read.ret = hist.write.photos


\* Handlers g and h have each run createPhoto, both reads having been
\* answered by the backend before either called writePhotos, and both backend writes have completed,
\* h's put last; nothing else has written the document.
BothCreated(g, h) ==
    /\ g # h
    /\ {g, h} \subseteq hist.snap
    /\ hist.puts = <<g, h>>

\* The record createPhoto returned to handler h.
Returned(h) == req[h].ret.photos[1]

\* C15: last write wins, with a lost update.  When two createPhoto calls have
\* both read the collection before either wrote, both return a created record,
\* and once both writes have completed the persisted document holds the record
\* of the write committed last and not the other one.
C15_LastWriteWins ==
    \A g, h \in Handlers :
        BothCreated(g, h) =>
            /\ req[g].ret.tag = "photo"
            /\ req[h].ret.tag = "photo"
            /\ blob.exists
            /\ MapHas(blob.doc, Returned(h).id)
            /\ ~MapHas(blob.doc, Returned(g).id)
            /\ Len(blob.doc) = Returned(h).position + 1

\* The interleaving exists: two creates on a cold cache, both answered 201,
\* both written, one record persisted.
C15_Witness ==
    \E g, h \in Handlers :
        /\ BothCreated(g, h)
        /\ req[g].status = 201
        /\ req[h].status = 201
        /\ req[g].pc = "done"
        /\ req[h].pc = "done"
        /\ Returned(g).id # Returned(h).id
        /\ ~MapHas(blob.doc, Returned(g).id)


(***************************************************************************)
(* usePolling (SpecPolling)                                                *)
(***************************************************************************)
\* While an invocation is in flight nothing changes the invocations in flight
\* except its settling, which leaves none: no call of executeCallback starts
\* a second one, and none that was skipped is started later.
OneAtATime ==
    inFlight # <<>> => (inFlight' = inFlight \/ inFlight' = <<>>)

\* C16: at most one invocation of the callback started by the hook (interval
\* tick, manual refresh, visibility regain or immediate start) is in flight at
\* any time; a tick that fires while one is in flight does not invoke the
\* callback and is not queued to run later.
C16_NoOverlap ==
    /\ [](Len(inFlight) <= 1)
    /\ [](isPollingRef <=> inFlight # <<>>)
    /\ [][OneAtATime]_vars
    /\ [][(TimerFires /\ isPollingRef) =>
             (inFlight' = inFlight /\ ~called'.invoked)]_vars

\* The timer has fired while an invocation was in flight, and that invocation
\* is still the only one.
C16_Witness ==
    /\ called = [by |-> "tick", invoked |-> FALSE]
    /\ Len(inFlight) = 1
    /\ isPollingRef
    /\ intervalRef.set

\* C17: no interval timer is scheduled while the page is hidden, in every
\* reachable state (so no tick-triggered invocation starts while hidden):
\* after the page becomes hidden, when the hook mounts or is enabled while
\* hidden, and when the options change while hidden.
C17_NoTimerWhileHidden == hidden => ~intervalRef.set

\* C18 as stated: when the page becomes visible again and polling is enabled,
\* the callback is invoked at once and the interval timer is scheduled; when
\* polling is not enabled, neither happens.
C18_ShowInvokes ==
    [][(Show /\ mounted = "yes") =>
          IF options.enabled
          THEN /\ inFlight' = Append(inFlight, [by |-> "visible",
                                                onError |-> options.onError])
               /\ intervalRef'.set
          ELSE /\ inFlight' = inFlight
               /\ ~intervalRef'.set]_vars

\* C18, amended: the callback is invoked at once unless an invocation is
\* still in flight, in which case none is started.
C18_ShowInvokesUnlessInFlight ==
    [][(Show /\ mounted = "yes") =>
          IF options.enabled
          THEN /\ ~isPollingRef =>
                    inFlight' = <<[by |-> "visible",
                                   onError |-> options.onError]>>
               /\ isPollingRef => inFlight' = inFlight
               /\ isPollingRef'
               /\ intervalRef'.set
               /\ intervalRef'.interval = options.interval
          ELSE /\ inFlight' = inFlight
               /\ ~intervalRef'.set]_vars

\* The page has just become visible: the callback was invoked for it and the
\* timer is set.
C18_Witness ==
    /\ ~hidden
    /\ mounted = "yes"
    /\ options.enabled
    /\ called = [by |-> "visible", invoked |-> TRUE]
    /\ inFlight = <<[by |-> "visible", onError |-> options.onError]>>
    /\ intervalRef.set

\* C19: when the callback rejects, the error goes to the onError handler of
\* the caller (when there is one) and no further; the in-flight flag is
\* cleared and the interval timer stays as it is, so that the next tick
\* invokes the callback again.
C19_RejectionHandled ==
    /\ [][Reject =>
             /\ settled'.how = "rejected"
             /\ settled'.onError = inFlight[1].onError
             /\ ~isPollingRef'
             /\ inFlight' = <<>>
             /\ intervalRef' = intervalRef
             /\ mounted' = mounted]_vars
    /\ [][(TimerFires /\ settled.how = "rejected" /\ ~isPollingRef) =>
             /\ called' = [by |-> "tick", invoked |-> TRUE]
             /\ Len(inFlight') = 1]_vars

\* After a rejection that the handler received, the timer has fired and the
\* callback is in flight again.
C19_Witness ==
    /\ settled = [how |-> "rejected", onError |-> 1]
    /\ called = [by |-> "tick", invoked |-> TRUE]
    /\ inFlight = <<[by |-> "tick", onError |-> 1]>>
    /\ intervalRef.set


(***************************************************************************)
(* usePhotos (SpecMirror)                                                  *)
(***************************************************************************)
\* A mutating action of the hook has been called in this step; its request
\* is the last of calls'.
Called == calls'[Len(calls')]
MutationCalled ==
    /\ Len(calls') = Len(calls) + 1
    /\ Called.op # "list"
    /\ Called.phase = "sent"

\* The mirror m shows the change request c asks for; m0 is the mirror before
\* the action was called.
Reflects(c, m0, m) ==
    CASE c.op = "create" -> Len(m) = Len(m0) + 1
      [] c.op \in {"update", "toggle"} ->
           \A i \in DOMAIN m :
              m[i].id = c.id =>
                 \A k \in DOMAIN c.data :
                    HasKey(m[i], k) /\ m[i][k] = c.data[k]
      [] c.op = "delete" -> ~MapHas(m, c.id)

Applied(c, m0, m) ==
    CASE c.op = "update" ->
           /\ Len(m) = Len(m0)
           /\ \A i \in DOMAIN m0 :
                 m0[i].id = c.id =>
                    \A k \in DOMAIN c.data :
                       HasKey(m[i], k) /\ m[i][k] = c.data[k]
      [] c.op = "toggle" ->
           /\ Len(m) = Len(m0)
           /\ \A i \in DOMAIN m0 :
                 m0[i].id = c.id => m[i].isFavorite = ~m0[i].isFavorite
           /\ \E i \in DOMAIN m0 :
                 m0[i].id = c.id /\ m[i].isFavorite = c.data.isFavorite
      [] c.op = "delete" -> ~MapHas(m, c.id)
      [] OTHER -> FALSE

SettledAt(i) ==
    /\ calls[i].phase # "sent"
    /\ \/ calls' = Splice1(calls, i - 1)
       \/ calls' = Append(Splice1(calls, i - 1),
                          ListCall(FALSE, calls[i].sort))

\* The list the server holds, as a response carries it.
ServerList == JSONRoundTrip(GetAllPhotos(blob.doc, EmptyObj, sortOption))

\* C21: when the request of updatePhoto, deletePhoto or toggleFavorite has
\* failed, the code after it leaves the mirror to a full list fetch it issues
\* (no local undo), and when a list fetch that carries the server's list
\* settles with nothing else on its way, the mirror is that list.
C21_FailureRefetches ==
    /\ [][\A i \in DOMAIN calls :
             (SettledAt(i) /\ calls[i].phase = "failed"
                /\ calls[i].op \in {"update", "delete", "toggle"}) =>
                /\ mirror' = mirror
                /\ calls' = Append(Splice1(calls, i - 1),
                                   ListCall(FALSE, calls[i].sort))]_vars
    /\ [][(Len(calls) = 1 /\ SettledAt(1) /\ calls[1].op = "list"
             /\ calls[1].phase = "ok" /\ calls[1].result = ServerList) =>
             mirror' = ServerList]_vars

\* C22: when the response of a successful updatePhoto reaches the hook and
\* the server still stores the record it answered with, every copy of the
\* record in the mirror equals the stored record, field for field, and no
\* list fetch is issued.
C22_UpdateReconciled ==
    [][\A i \in DOMAIN calls :
          (SettledAt(i) /\ calls[i].op = "update" /\ calls[i].phase = "ok"
             /\ MapHas(blob.doc, calls[i].id)
             /\ MapGet(blob.doc, calls[i].id) = calls[i].result[1]) =>
             /\ calls' = Splice1(calls, i - 1)
             /\ \A k \in DOMAIN mirror' :
                   mirror'[k].id = calls[i].id =>
                      mirror'[k] = MapGet(blob.doc, calls[i].id)]_vars

\* The step is the code after the await of a fetchPhotos(silent).
FetchSettledStep(silent) ==
    \E i \in DOMAIN calls :
       SettledAt(i) /\ calls[i].op = "list" /\ calls[i].silent = silent

\* The step sends the request of a foreground fetch.
ForegroundBegun ==
    /\ calls' # calls
    /\ Len(calls') >= Len(calls)
    /\ Len(calls') > 0
    /\ calls'[Len(calls')].op = "list"
    /\ calls'[Len(calls')].phase = "sent"
    /\ ~calls'[Len(calls')].silent

\* C23: a silent fetch, when it is called and when it has succeeded or failed,
\* leaves isLoading and error as they are and shows no toast; isLoading
\* changes and the failure of a fetch is shown in the steps of a foreground
\* fetch only.
C23_SilentFetchQuiet ==
    /\ [][(SilentFetch \/ FetchSettledStep(TRUE)) =>
             /\ UNCHANGED <<isLoading, error>>
             /\ toast' = NoToast]_vars
    /\ [][(isLoading' # isLoading \/ toast' = FetchFailed) =>
             (ForegroundBegun \/ FetchSettledStep(FALSE))]_vars

\* C24: when a list fetch resolves successfully with no other request on its
\* way, the mirror is the server's complete sorted list, whatever its size,
\* and allTags holds the tags of the server's records.
C24_FetchReplacesMirror ==
    [][(Len(calls) = 1 /\ SettledAt(1) /\ calls[1].op = "list"
          /\ calls[1].phase = "ok") =>
          /\ mirror' = ServerList
          /\ Elems(allTags') = Elems(TagsOf(blob.doc))]_vars

\* A record within the limits of the schemas.
RecordValid(p) ==
    /\ Len(p.title) >= 1 /\ Len(p.title) <= 100
    /\ HasKey(p, "description") => Len(p.description) <= 500
    /\ Len(p.tags) <= 10
    /\ \A i \in DOMAIN p.tags : Len(p.tags[i]) <= 30
    /\ p.frameColor \in {"white", "cream", "pink", "lavender", "mint", "peach"}

Persisted == \A i \in DOMAIN blob.doc : RecordValid(blob.doc[i])

\* The step answers a POST whose body the schema rejects.
PostRejected ==
    \E body \in PostBodies : ~CreateValid(body) /\ StartPost(1, body)

\* The step is the one of a PUT that looks at a body the schema rejects.
PutRejected ==
    /\ req[1].http = "PUT"
    /\ ~UpdateValid(req[1].body)
    /\ GetByIdBody(1)

\* C25 as stated: every persisted record is within the limits, and a POST or
\* PUT whose body is not is answered 400 and leaves the persisted document
\* unchanged.
C25_InvalidAnswered400 ==
    /\ []Persisted
    /\ [][(PostRejected \/ PutRejected) =>
             /\ req'[1].pc = "done" /\ req'[1].status = 400
             /\ blob' = blob]_vars
    /\ [][(req[1].http = "PUT" /\ ~UpdateValid(req[1].body)) =>
             blob' = blob]_vars

\* C25, amended: every persisted record is within the limits; a POST whose
\* body is not is answered 400; a PUT whose body is not is answered 404 when
\* the collection holds no record of its id and 400 when it does; neither
\* changes the persisted document.
C25_InvalidRejected ==
    /\ []Persisted
    /\ [][PostRejected =>
             /\ req'[1].pc = "done" /\ req'[1].status = 400
             /\ blob' = blob]_vars
    /\ [][PutRejected =>
             /\ req'[1].pc = "done"
             /\ req'[1].status =
                   IF MapHas(heap[req[1].photos], req[1].id) THEN 400 ELSE 404
             /\ blob' = blob]_vars
    /\ [][(req[1].http = "PUT" /\ ~UpdateValid(req[1].body)) =>
             blob' = blob]_vars

\* A PUT with a title of more than 100 characters has been answered 400, the
\* persisted record keeping its title.
C25_Witness ==
    /\ req[1].pc = "done"
    /\ req[1].http = "PUT"
    /\ HasKey(req[1].body, "title")
    /\ Len(req[1].body.title) > 100
    /\ req[1].status = 400
    /\ MapHas(blob.doc, req[1].id)
    /\ MapGet(blob.doc, req[1].id).title # req[1].body.title

\* The server held record id and holds it no more, and no deletePhoto(id) of
\* the page is on its way: the page's deletePhoto(id) has succeeded.
DeleteDone(id) ==
    /\ id < nextId
    /\ ~MapHas(blob.doc, id)
    /\ \A i \in DOMAIN calls : ~(calls[i].op = "delete" /\ calls[i].id = id)

\* The response the server gives now for the sortOption of the store.
CurrentList == JSONRoundTrip(ListResponse(blob.doc, EmptyObj, sortOption))

\* C26: a photo whose deletePhoto has succeeded is not in the mirror, whatever
\* list response arrives afterwards; and the last response to arrive, when it
\* was computed for a sortOption that has been replaced since, does not take
\* the place of the list of the current sortOption in the mirror.
C26_StaleResponseHarmless ==
    /\ [](\A id \in 1..MirrorPhotos : DeleteDone(id) => ~MapHas(mirror, id))
    /\ [][(Len(calls) = 1 /\ SettledAt(1) /\ calls[1].op = "list"
             /\ calls[1].phase = "ok" /\ calls[1].sort # sortOption
             /\ mirror = CurrentList) =>
             mirror' = mirror]_vars

\* C27 as stated: refresh(), called in any state, invokes the callback once
\* at once.
C27_RefreshInvokes ==
    [][Refresh =>
          inFlight' = Append(inFlight, [by |-> "refresh",
                                        onError |-> options.onError])]_vars

\* C27, amended: refresh() invokes the callback once at once, whether a timer
\* is scheduled or not and whether the page is visible or hidden, unless an
\* invocation is still in flight, in which case it does nothing; it leaves
\* the timer as it is.
C27_RefreshInvokesUnlessInFlight ==
    [][Refresh =>
          /\ ~isPollingRef =>
                /\ inFlight' = <<[by |-> "refresh",
                                  onError |-> options.onError]>>
                /\ called' = [by |-> "refresh", invoked |-> TRUE]
          /\ isPollingRef =>
                /\ inFlight' = inFlight
                /\ called' = [by |-> "refresh", invoked |-> FALSE]
          /\ isPollingRef'
          /\ intervalRef' = intervalRef]_vars

\* refresh() has invoked the callback while the page is hidden and no timer
\* is scheduled.
C27_Witness ==
    /\ mounted = "yes"
    /\ hidden
    /\ ~intervalRef.set
    /\ called = [by |-> "refresh", invoked |-> TRUE]
    /\ inFlight = <<[by |-> "refresh", onError |-> options.onError]>>
    /\ isPollingRef

\* C28: the step of getAllPhotos that filters and sorts what readPhotos
\* returned, whatever its filters and sort option, leaves the cached
\* collection as it is, the same records in the same array order, and the
\* persisted document too.
C28_ListReadOnly ==
    [][\A h \in Handlers :
          (InBody(h, "getAllPhotos") /\ req'[h].pc = "done") =>
             /\ CacheContents' = CacheContents
             /\ blob' = blob]_vars

\* C29: when the error handling of a failed toggleFavorite has run and no
\* other mutation is on its way, every copy of that photo in the mirror shows
\* the isFavorite the server holds for it, whatever list fetches settled
\* between the optimistic toggle and the failure.
C29_FailedToggleRestores ==
    [][\A i \in DOMAIN calls :
          (/\ SettledAt(i)
           /\ calls[i].op = "toggle"
           /\ calls[i].phase = "failed"
           /\ \A j \in DOMAIN calls : j # i => calls[j].op = "list"
           /\ MapHas(blob.doc, calls[i].id)) =>
             \A k \in DOMAIN mirror' :
                mirror'[k].id = calls[i].id =>
                   mirror'[k].isFavorite
                      = MapGet(blob.doc, calls[i].id).isFavorite]_vars

\* C30: while a writePhotos of a non-empty collection that keeps every record
\* persisted before is in progress and nobody else has touched the backend
\* since it was called, a read of another request that the backend answers
\* returns the collection persisted before that write or the collection being
\* written.
C30_WriteAtomicForReaders ==
    [][\A h \in Handlers :
          LET g == hist.write.by
          IN (/\ hist.write.called
              /\ g \in Handlers \ {h}
              /\ req[g].pc \in {"w_list", "w_del", "w_put"}
              /\ Len(hist.write.photos) > 0
              /\ \A i \in DOMAIN hist.write.before :
                    MapHas(hist.write.photos, hist.write.before[i].id)
              /\ 0 \notin Elems(hist.puts)
              /\ blob.exists => blob.doc = hist.write.before
              /\ req[h].pc \in {"r_list", "r_fetch"}
              /\ req'[h].pc = "body"
              /\ hist'.read.how \in {"empty", "fetched"}) =>
                hist'.read.ret \in {hist.write.before,
                                    JSONRoundTrip(hist.write.photos)}]_vars

====
